---- MODULE Spec2Model ----
(***************************************************************************)
(* Model of JDBCConnectionPool (multi_db_load_tester_jdbc_GLM47_v2.4.0.py) *)
(* with its health-check thread and the callers that acquire, release and  *)
(* discard connections.  Every step is one access to shared state (a       *)
(* queue operation or one `with self.lock:` block) together with the       *)
(* thread-private work that follows it.                                    *)
(***************************************************************************)
EXTENDS Integers, Sequences, FiniteSets, TLC

\* ---- configuration of the pool under study -------------------------------
min_size == 1
max_size == 2
min_pool_size == 1       \* JdbcConfig.min_pool_size
max_pool_size == 1       \* JdbcConfig.max_pool_size
max_lifetime_seconds == 60
idle_timeout_seconds == 30
keepalive_time_seconds == 30
max_retries == 3
max_creation_retries == 3
leak_detection_threshold_seconds == 60
MAX_CONNECTION_RETRIES == 3
MAX_BACKOFF_MS == 5000
ERROR_LOG_INTERVAL_MS == 10000

\* ---- bounds of the model --------------------------------------------------
MaxHandles == 3       \* physical connections ever opened
MaxActive == 2        \* threads inside a pool operation at the same time
MaxWarnings == 4      \* leak warnings are counted up to this many
Scale == 2            \* the limiter's clock counts 1/Scale seconds
MaxClock == 6         \* the limiter is followed for MaxClock / Scale seconds
Epoch == 20           \* time.time() when the workers start, in seconds
LogTickSeconds == 5   \* the step of the workers' clock, in seconds
LogSpan == 30         \* how long the workers' clock runs, in seconds
MaxFailures == 4      \* calls of log_error per worker
MaxPerfClock == 3     \* how long perf_counter's clock runs, in 1/Scale s
MaxWarmup == 2        \* the latest warmup boundary, in 1/Scale s
MaxCalls == 3         \* calls of record_transaction
MaxInserts == 3       \* rows counted by increment_insert
MaxBatch == 2         \* the largest batch counted by one increment_insert
MaxSamples == 102     \* latency samples in the buffer
MaxLatency == 3       \* the largest latency sample, in ms
MaxCount == 2         \* failures of each kind that the database produces
MaxRate == 2          \* target_tps is 1..MaxRate
TickSeconds == 40     \* the clock advances in steps of this many seconds

Workers == {"w1", "w2"}
HC == "hc"
Threads == Workers \cup {HC}
MON == "monitor"         \* the monitoring thread
Handles == 1..MaxHandles
None == 0
NoTime == -1

VARIABLES
  pool,                \* self.pool: the idle queue (FIFO of handles)
  current_size,        \* self.current_size
  active_count,        \* self.active_count
  total_created,       \* self.total_created
  active_connections,  \* self.active_connections: the in-flight map (its keys)
  pooled,              \* per handle: the PooledConnection and its connection
  pc,                  \* per thread: where it stands
  conn,                \* per thread: the local pooled_conn / conn / new_conn
  ret_pc,              \* per thread: where _create_connection_internal returns to
  retry_count,         \* acquire's retry_count
  backoff_ms,          \* acquire's backoff_ms
  vet,                 \* per caller: what acquire saw of the handle it hands out
  held,                \* per caller: the connections it got and has not given back
  valid_connections,   \* _check_idle_connections' local list
  attempt,             \* _create_connection_internal's loop index `attempt`
  main,                \* the main thread: where it stands in close_all
  lock,                \* self.lock as get_pool_stats sees it: who holds it
  monitor,             \* the monitoring thread: where it stands in get_pool_stats
  stats,               \* what get_pool_stats returned last
  acquired_seconds,    \* per handle: time.time() - acquired_at
  leaked_connections,  \* _detect_connection_leaks' local list
  total_leaked_warnings, \* self.total_leaked_warnings
  target_tps,          \* RateLimiter.target_tps
  max_tokens,          \* RateLimiter.max_tokens, in 1/Scale tokens
  tokens,              \* RateLimiter.tokens, in 1/Scale tokens
  last_refill,         \* RateLimiter.last_refill, in 1/Scale seconds
  clock,               \* time.time() since the limiter was made, in 1/Scale s
  rl_pc,               \* per caller: where it stands in RateLimiter.acquire
  start_time,          \* per caller: acquire's start_time
  granted,             \* per instant: how many acquire calls returned True
  wpc,                 \* per worker: where it stands in LoadTestWorker.run
  connection,          \* per worker: run's local `connection`
  consecutive_errors,  \* per worker: run's local, counted up to 2 (2 or more)
  current_backoff_ms,  \* per worker: self.current_backoff_ms
  gv_retry,            \* per worker: _get_valid_connection's `retry`
  gv_conn,             \* per worker: _get_valid_connection's `conn`
  gv_ret,              \* per worker: where _get_valid_connection returns to
  shutdown_requested,  \* shutdown_handler.shutdown_requested
  time_up,             \* datetime.now() >= end_time
  total_errors,        \* perf_counter.total_errors
  verification_failures, \* perf_counter.verification_failures
  connection_recreates, \* perf_counter.connection_recreates
  log_now,             \* time.time() as the worker reads it, in seconds
  last_error_log_time, \* per worker: self.last_error_log_time
  suppressed_error_count, \* per worker: self.suppressed_error_count
  warned_at,           \* per worker: the warnings log_error has emitted
  failures,            \* per worker: the calls of log_error so far
  perf_now,            \* time.time() as perf_counter reads it, in 1/Scale s
  warmup_end_time,     \* perf_counter.warmup_end_time, NoTime for None
  perf_lock,           \* perf_counter.lock: who holds it
  total_transactions,  \* perf_counter.total_transactions
  post_warmup_transactions, \* perf_counter.post_warmup_transactions
  total_inserts,       \* perf_counter.total_inserts
  recent_transactions, \* perf_counter.recent_transactions
  ppc,                 \* per thread: where it stands in a perf_counter method
  current_time,        \* per thread: the method's local current_time
  count,               \* per worker: increment_insert's argument
  loaded,              \* per worker: the counter as `+=` has read it
  snapshot,            \* what get_stats returned last
  tps,                 \* what get_sub_second_tps returned last
  call_times,          \* per instant: the calls of record_transaction made
  recorded,            \* per instant: the timestamps appended to the queue
  issued,              \* the sum of the increments that have returned
  latencies,           \* perf_counter.latencies: per value, how many samples
  latency_stats,       \* what get_latency_stats returned last
  jdbc_pool,           \* JdbcConnectionPool.pool: the idle connections
  created_connections, \* JdbcConnectionPool.created_connections
  jdbc_lock,           \* JdbcConnectionPool.lock: who holds it
  jpc,                 \* per thread: where it stands in JdbcConnectionPool
  jconn,               \* per thread: the local `conn`
  jfill,               \* __init__'s loop index over min_pool_size
  lock_owner,          \* per lock of the engine: who holds it
  script               \* per thread: the lock steps its call has yet to take

\* the pool, its threads and their locals, as acquire, release, discard and
\* the sweep use them
poolVars == <<pool, current_size, active_count, total_created,
              active_connections, pooled, pc, conn, ret_pc, retry_count,
              backoff_ms, vet, held, valid_connections>>

\* the state that acquire, release, discard and the sweep leave alone
statVars == <<lock, monitor, stats>>
leakVars == <<acquired_seconds, leaked_connections, total_leaked_warnings>>
rateVars == <<target_tps, max_tokens, tokens, last_refill, clock, rl_pc,
              start_time, granted>>
workVars == <<wpc, connection, consecutive_errors, current_backoff_ms,
              gv_retry, gv_conn, gv_ret, shutdown_requested, time_up,
              total_errors, verification_failures, connection_recreates>>
\* LoadTestWorker and PerformanceCounter: the pool's clients
logVars == <<log_now, last_error_log_time, suppressed_error_count,
             warned_at, failures>>
counterVars == <<perf_now, warmup_end_time, perf_lock, total_transactions,
                 post_warmup_transactions, total_inserts, recent_transactions,
                 ppc, current_time, count, loaded, snapshot, tps, call_times,
                 recorded, issued>>
latencyVars == <<latencies, latency_stats>>
\* the simple pool of multi_db_loader_grok.py, and the engine's locks
jdbcVars == <<jdbc_pool, created_connections, jdbc_lock, jpc, jconn, jfill>>
lockVars == <<lock_owner, script>>
sideVars == <<jdbcVars, lockVars>>
perfVars == <<counterVars, latencyVars, sideVars>>
clientVars == <<workVars, logVars, perfVars>>
\* the pool's side of the state that the clients' own steps leave alone
serverAux == <<attempt, main, statVars, leakVars, rateVars>>
\* what a step of LoadTestWorker.run leaves alone beside the pool
notWorker == <<serverAux, logVars, perfVars>>
aux == <<serverAux, clientVars>>

vars == <<poolVars, aux>>

counters == <<current_size, active_count, total_created>>
acqLocals == <<retry_count, backoff_ms, vet>>

\* A PooledConnection: state is "unborn" (not opened yet), "live", "broken"
\* (open, but isValid() fails) or "closed".  The clock is unbounded: instead
\* of created_at and last_used_at the model keeps age = time.time() -
\* created_at and idle = time.time() - last_used_at, each no longer counted
\* once it is above the largest threshold the code compares it with;
\* acquired tells whether acquired_at is set (acquired_at = last_used_at
\* whenever it is).
\* A closed connection is garbage: nothing reads its timestamps again.
NoConnection(st) ==
  [state |-> st, age |-> 0, idle |-> 0, acquired |-> FALSE]

Max(a, b) == IF a > b THEN a ELSE b
IdleLimit == Max(idle_timeout_seconds, keepalive_time_seconds)

\* ---- pure helpers ---------------------------------------------------------
Min(a, b) == IF a < b THEN a ELSE b

\* max(0, n - 1)
DecFloor(n) == IF n - 1 > 0 THEN n - 1 ELSE 0

get_age_seconds(h) == pooled[h].age

get_idle_seconds(h) ==
  IF pooled[h].acquired THEN NoTime ELSE pooled[h].idle

is_connection_expired(h) == get_age_seconds(h) > max_lifetime_seconds

\* jconn.isClosed() is false and jconn.isValid() is true
validate_connection(h) == h # None /\ pooled[h].state = "live"

\* a queue that counts as full one handle early
QueueFullEarly == Len(pool) >= max_size - 1

\* queue.Queue(maxsize=max_size): put_nowait raises Full at maxsize
QueueFull == Len(pool) >= max_size

\* a capacity test that is off by one
HasCapacityInclusive == current_size <= max_size

\* acquire's and the sweep's capacity test
HasCapacity == current_size < max_size

\* a can_drop that is never true
CanDropNever == current_size > max_size

\* the sweep's can_drop
CanDrop == current_size > min_size

NextBackoff(b) == Min(b * 2, 5000)

Unborn == {h \in Handles : pooled[h].state = "unborn"}
FreshHandle == CHOOSE h \in Unborn : \A g \in Unborn : h <= g

\* a thread is inside a pool operation
Busy(t) == pc[t] \notin {"rest", "hc_sleep"}
MayStart == Cardinality({t \in Threads : Busy(t)}) < MaxActive

InQueue(h) == \E i \in 1..Len(pool) : pool[i] = h
AllHeld == UNION {held[t] : t \in Workers}

\* What was true of the handle acquire hands out at the moment acquire got
\* hold of it: the path that hands it out, and whether the handle was then
\* past its lifetime or dead.  Taken(h, path) is a handle taken from the
\* idle queue, Opened(path) a connection this call has just opened.
NotVetted == [how |-> "none", expired |-> FALSE, broken |-> FALSE]
Taken(h, path) ==
  [how |-> path, expired |-> is_connection_expired(h),
   broken |-> pooled[h].state = "broken"]
Opened(path) == [how |-> path, expired |-> FALSE, broken |-> FALSE]

\* RateLimiter.__init__(N): a full second's worth of tokens, twice that as
\* the most the bucket holds
RateInit(N) ==
  /\ target_tps = N
  /\ tokens = N * Scale
  /\ max_tokens = N * 2 * Scale
  /\ last_refill = 0
  /\ clock = 0
  /\ rl_pc = [t \in Workers |-> "rest"]
  /\ start_time = [t \in Workers |-> 0]
  /\ granted = [i \in 0..MaxClock |-> 0]

\* `for attempt in range(max_creation_retries)` starts at 0
OtherInit ==
  /\ attempt = [t \in Threads |-> 0]
  /\ main = "running"
  /\ lock = "free"
  /\ monitor = "rest"
  /\ stats = [pool_total |-> 0, pool_active |-> 0, pool_idle |-> 0,
              status |-> "none"]
  /\ acquired_seconds = [h \in Handles |-> 0]
  /\ leaked_connections = {}
  /\ total_leaked_warnings = 0

\* LoadTestWorker.__init__ and the first lines of run; a new
\* PerformanceCounter
WorkerInit ==
  /\ wpc = [t \in Workers |-> "w_top"]
  /\ connection = [t \in Workers |-> None]
  /\ consecutive_errors = [t \in Workers |-> 0]
  /\ current_backoff_ms = [t \in Workers |-> 100]
  /\ gv_retry = [t \in Workers |-> 0]
  /\ gv_conn = [t \in Workers |-> None]
  /\ gv_ret = [t \in Workers |-> "none"]
  /\ shutdown_requested = FALSE
  /\ time_up = FALSE
  /\ total_errors = 0
  /\ verification_failures = 0
  /\ connection_recreates = 0

\* LoadTestWorker.__init__, the log's side, at time.time() = Epoch
LogInit ==
  /\ log_now = Epoch
  /\ last_error_log_time = [t \in Workers |-> 0]
  /\ suppressed_error_count = [t \in Workers |-> 0]
  /\ warned_at = [t \in Workers |-> <<>>]
  /\ failures = [t \in Workers |-> 0]

\* PerformanceCounter.__init__ and set_warmup_end_time(W), NoTime for none
CounterInit(W) ==
  /\ perf_now = 0
  /\ warmup_end_time = W
  /\ perf_lock = "free"
  /\ total_transactions = 0
  /\ post_warmup_transactions = 0
  /\ total_inserts = 0
  /\ recent_transactions = <<>>
  /\ ppc = [t \in Workers \cup {MON} |-> "idle"]
  /\ current_time = [t \in Workers \cup {MON} |-> 0]
  /\ count = [t \in Workers |-> 0]
  /\ loaded = [t \in Workers |-> 0]
  /\ snapshot = [total_transactions |-> 0, post_warmup_transactions |-> 0,
                 total_inserts |-> 0, realtime_tps |-> 0]
  /\ tps = 0
  /\ call_times = [i \in 0..MaxPerfClock |-> 0]
  /\ recorded = [i \in 0..MaxPerfClock |-> 0]
  /\ issued = 0

\* no result of get_latency_stats at hand
NoStats == [avg |-> 0, p50 |-> 0, p95 |-> 0, p99 |-> 0, min |-> 0, max |-> 0,
            samples |-> NoTime]

\* self.latencies = deque(maxlen=10000), empty
LatencyInit ==
  /\ latencies = [v \in 1..MaxLatency |-> 0]
  /\ latency_stats = NoStats

\* JdbcConnectionPool.__init__ before its loop: an empty queue, no connection
\* counted, the lock free; the thread that builds the pool is BOOT
BOOT == "boot"
JdbcInit ==
  /\ jdbc_pool = <<>>
  /\ created_connections = 0
  /\ jdbc_lock = "free"
  /\ jpc = [t \in Workers \cup {BOOT} |->
              IF t = BOOT THEN "init_fill" ELSE "idle"]
  /\ jconn = [t \in Workers \cup {BOOT} |-> "none"]
  /\ jfill = 0

\* the locks of the engine: JDBCConnectionPool.lock and
\* .active_connections_lock, PerformanceCounter.lock, .recent_lock,
\* .latency_lock and .time_series_lock
PoolLocks == {"pool", "active"}
MetricsLocks == {"perf", "recent", "latency", "series"}
Locks == PoolLocks \cup MetricsLocks

\* every lock is free and no thread is inside a call
LockInit ==
  /\ lock_owner = [l \in Locks |-> "free"]
  /\ script = [t \in Threads \cup {MON} |-> <<>>]

SideInit ==
  /\ JdbcInit
  /\ LockInit

ClientInit ==
  /\ WorkerInit
  /\ LogInit
  /\ CounterInit(NoTime)
  /\ LatencyInit
  /\ SideInit

AuxInit ==
  /\ OtherInit
  /\ RateInit(1)
  /\ ClientInit

\* ---- initial state: after __init__ and _warmup_pool -----------------------
\* Warm-up opens up to min_size connections; each attempt may fail.
Init ==
  \E k \in 0..min_size :
    /\ pool = [i \in 1..k |-> i]
    /\ current_size = k
    /\ active_count = 0
    /\ total_created = k
    /\ active_connections = {}
    /\ pooled = [h \in Handles |->
                   NoConnection(IF h <= k THEN "live" ELSE "unborn")]
    /\ pc = [t \in Threads |-> IF t = HC THEN "hc_sleep" ELSE "rest"]
    /\ conn = [t \in Threads |-> None]
    /\ ret_pc = [t \in Threads |-> "none"]
    /\ retry_count = [t \in Workers |-> 0]
    /\ backoff_ms = [t \in Workers |-> 100]
    /\ vet = [t \in Workers |-> NotVetted]
    /\ held = [t \in Workers |-> {}]
    /\ valid_connections = <<>>
    /\ AuxInit

\* ---- environment ----------------------------------------------------------
\* TickSeconds pass: every open connection grows older.  last_used_at of an
\* acquired connection is overwritten by mark_released before it is read
\* again, so its idle time is left alone.
Older(c) ==
  [c EXCEPT !.age = IF @ > max_lifetime_seconds THEN @ ELSE @ + TickSeconds,
            !.idle = IF c.acquired \/ @ > IdleLimit THEN @
                     ELSE @ + TickSeconds]

Open(h) == pooled[h].state \in {"live", "broken"}

Tick ==
  /\ \E h \in Handles : Open(h) /\ Older(pooled[h]) # pooled[h]
  /\ pooled' = [h \in Handles |->
                  IF Open(h) THEN Older(pooled[h]) ELSE pooled[h]]
  /\ UNCHANGED <<pool, counters, active_connections, pc, conn, ret_pc,
                 acqLocals, held, valid_connections>>
  /\ UNCHANGED aux

\* the backend drops an open connection: isValid() turns false for good
Break(h) ==
  /\ pooled[h].state = "live"
  /\ InQueue(h) \/ h \in AllHeld
  /\ pooled' = [pooled EXCEPT ![h].state = "broken"]
  /\ UNCHANGED <<pool, counters, active_connections, pc, conn,
                 ret_pc, acqLocals, held, valid_connections>>
  /\ UNCHANGED aux

\* ---- _create_connection_internal -----------------------------------------
\* a creation that never tests the capacity
CreateCheckUnbounded(t) ==
  /\ pc[t] = "cci_check"
  /\ current_size' = current_size + 1
  /\ pc' = [pc EXCEPT ![t] = "cci_connect"]
  /\ UNCHANGED <<pool, active_count, total_created, active_connections,
                 pooled, conn, ret_pc, acqLocals, held, valid_connections>>
  /\ UNCHANGED aux

\* a failed connect that leaves the optimistic increment in place
ConnectFailKeeps(t) ==
  /\ pc[t] = "cci_connect"
  /\ conn' = [conn EXCEPT ![t] = None]
  /\ pc' = [pc EXCEPT ![t] = ret_pc[t]]
  /\ ret_pc' = [ret_pc EXCEPT ![t] = "none"]
  /\ UNCHANGED <<pool, current_size, active_count, total_created,
                 active_connections, pooled, acqLocals, held, valid_connections>>
  /\ UNCHANGED aux

\* with self.lock: capacity test and optimistic increment
CreateCheck(t) ==
  /\ pc[t] = "cci_check"
  /\ IF HasCapacity
       THEN /\ current_size' = current_size + 1
            /\ pc' = [pc EXCEPT ![t] = "cci_connect"]
            /\ UNCHANGED <<conn, ret_pc>>
       ELSE /\ current_size' = current_size
            /\ pc' = [pc EXCEPT ![t] = ret_pc[t]]
            /\ conn' = [conn EXCEPT ![t] = None]
            /\ ret_pc' = [ret_pc EXCEPT ![t] = "none"]
  /\ UNCHANGED <<pool, active_count, total_created, active_connections,
                 pooled, acqLocals, held, valid_connections>>
  /\ UNCHANGED aux

\* jaydebeapi.connect succeeds; with self.lock: total_created += 1;
\* return PooledConnection(connection=conn)
ConnectOk(t) ==
  /\ pc[t] = "cci_connect"
  /\ Unborn # {}
  /\ LET h == FreshHandle IN
       /\ pooled' = [pooled EXCEPT ![h] =
                       [state |-> "live", age |-> 0, idle |-> 0,
                        acquired |-> FALSE]]
       /\ conn' = [conn EXCEPT ![t] = h]
  /\ total_created' = total_created + 1
  /\ pc' = [pc EXCEPT ![t] = ret_pc[t]]
  /\ ret_pc' = [ret_pc EXCEPT ![t] = "none"]
  /\ UNCHANGED <<pool, current_size, active_count, active_connections, acqLocals, held, valid_connections>>
  /\ UNCHANGED aux

\* jaydebeapi.connect raises; except: with self.lock: current_size -= 1;
\* sleep; return None
\* (the return sits inside the except block: the first failure ends the call)
ConnectFail(t) ==
  /\ pc[t] = "cci_connect"
  /\ current_size' = current_size - 1
  /\ conn' = [conn EXCEPT ![t] = None]
  /\ pc' = [pc EXCEPT ![t] = ret_pc[t]]
  /\ ret_pc' = [ret_pc EXCEPT ![t] = "none"]
  /\ UNCHANGED <<pool, active_count, total_created, active_connections,
                 pooled, acqLocals, held, valid_connections>>
  /\ UNCHANGED aux

\* ---- _close_pooled_connection --------------------------------------------
\* connection.close() on a handle the thread has to itself
Closed(h) == [pooled EXCEPT ![h] = NoConnection("closed")]

\* ---- acquire ---------------------------------------------------------------
\* mark_acquired: acquired_at = time.time(); last_used_at = acquired_at
MarkAcquired(h) ==
  [pooled EXCEPT ![h].acquired = TRUE, ![h].idle = 0]

\* `while retry_count < max_retries` with the new value of retry_count
LoopTest(rc) == IF rc < max_retries THEN "acq_get" ELSE "acq_final"

\* a caller at rest calls pool.acquire(timeout)
AcquireCall(t) ==
  /\ t \in Workers
  /\ MayStart
  /\ pc[t] = "rest"
  /\ retry_count' = [retry_count EXCEPT ![t] = 0]
  /\ backoff_ms' = [backoff_ms EXCEPT ![t] = 100]
  /\ vet' = [vet EXCEPT ![t] = NotVetted]
  /\ pc' = [pc EXCEPT ![t] = LoopTest(0)]
  /\ UNCHANGED <<pool, counters, active_connections, pooled, conn, ret_pc, held, valid_connections>>
  /\ UNCHANGED aux

\* pool.get(timeout=wait_time) returns a handle; expiry test and validation
AcquireGet(t) ==
  /\ pc[t] = "acq_get"
  /\ pool # <<>>
  /\ LET h == Head(pool) IN
       /\ pool' = Tail(pool)
       /\ conn' = [conn EXCEPT ![t] = h]
       /\ IF is_connection_expired(h)
            THEN /\ pooled' = Closed(h)
                 /\ pc' = [pc EXCEPT ![t] = "acq_exp_close"]
                 /\ vet' = vet
            ELSE IF validate_connection(h)
              THEN /\ pooled' = MarkAcquired(h)
                   /\ vet' = [vet EXCEPT ![t] = Taken(h, "queue")]
                   /\ pc' = [pc EXCEPT ![t] = "acq_register"]
              ELSE /\ pooled' = Closed(h)
                   /\ pc' = [pc EXCEPT ![t] = "acq_inv_close"]
                   /\ vet' = vet
  /\ UNCHANGED <<counters, active_connections, ret_pc, retry_count,
                 backoff_ms, held, valid_connections>>
  /\ UNCHANGED aux

\* pool.get(timeout=wait_time) raises queue.Empty
AcquireEmpty(t) ==
  /\ pc[t] = "acq_get"
  /\ pool = <<>>
  /\ pc' = [pc EXCEPT ![t] = "acq_empty"]
  /\ UNCHANGED <<pool, counters, active_connections, pooled, conn, ret_pc, acqLocals, held, valid_connections>>
  /\ UNCHANGED aux

\* expired handle: _close_pooled_connection's count, then create a replacement
AcquireExpiredClose(t) ==
  /\ pc[t] = "acq_exp_close"
  /\ current_size' = DecFloor(current_size)
  /\ pc' = [pc EXCEPT ![t] = "cci_check"]
  /\ ret_pc' = [ret_pc EXCEPT ![t] = "acq_recreated"]
  /\ UNCHANGED <<pool, active_count, total_created, active_connections,
                 pooled, conn, acqLocals, held,
                 valid_connections>>
  /\ UNCHANGED aux

\* back from creating the replacement of an expired handle
AcquireRecreated(t) ==
  /\ pc[t] = "acq_recreated"
  /\ IF conn[t] = None
       THEN /\ retry_count' = [retry_count EXCEPT ![t] = @ + 1]
            /\ backoff_ms' = [backoff_ms EXCEPT ![t] = NextBackoff(@)]
            /\ pc' = [pc EXCEPT ![t] = LoopTest(retry_count[t] + 1)]
            /\ UNCHANGED <<pooled, vet>>
       ELSE IF validate_connection(conn[t])
         THEN /\ pooled' = MarkAcquired(conn[t])
              /\ vet' = [vet EXCEPT ![t] = Opened("recreated")]
              /\ pc' = [pc EXCEPT ![t] = "acq_register"]
              /\ UNCHANGED <<retry_count, backoff_ms>>
         ELSE /\ pooled' = Closed(conn[t])
              /\ pc' = [pc EXCEPT ![t] = "acq_inv_close"]
              /\ UNCHANGED acqLocals
  /\ UNCHANGED <<pool, counters, active_connections, conn, ret_pc, held,
                 valid_connections>>
  /\ UNCHANGED aux

\* invalid handle: _close_pooled_connection's count, then the loop again
\* (retry_count is not touched on this path)
AcquireInvalidClose(t) ==
  /\ pc[t] = "acq_inv_close"
  /\ current_size' = DecFloor(current_size)
  /\ pc' = [pc EXCEPT ![t] = LoopTest(retry_count[t])]
  /\ conn' = [conn EXCEPT ![t] = None]
  /\ UNCHANGED <<pool, active_count, total_created, active_connections,
                 pooled, ret_pc, acqLocals, held,
                 valid_connections>>
  /\ UNCHANGED aux

\* `if retry_count < max_retries - 1: sleep; backoff *= 2` then retry_count += 1
BackoffAfterEmpty(t) ==
  /\ backoff_ms' = [backoff_ms EXCEPT ![t] =
                      IF retry_count[t] < max_retries - 1
                        THEN NextBackoff(@) ELSE @]
  /\ retry_count' = [retry_count EXCEPT ![t] = @ + 1]
  /\ pc' = [pc EXCEPT ![t] = LoopTest(retry_count[t] + 1)]

\* except queue.Empty: with self.lock: can_create = current_size < max_size
AcquireOnEmpty(t) ==
  /\ pc[t] = "acq_empty"
  /\ IF HasCapacity
       THEN /\ pc' = [pc EXCEPT ![t] = "cci_check"]
            /\ ret_pc' = [ret_pc EXCEPT ![t] = "acq_created"]
            /\ UNCHANGED <<retry_count, backoff_ms>>
       ELSE /\ BackoffAfterEmpty(t)
            /\ ret_pc' = ret_pc
  /\ UNCHANGED <<pool, counters, active_connections, pooled, conn, vet, held, valid_connections>>
  /\ UNCHANGED aux

\* back from creating a handle because the queue was empty
AcquireCreated(t) ==
  /\ pc[t] = "acq_created"
  /\ IF conn[t] # None
       THEN /\ pooled' = MarkAcquired(conn[t])
            /\ vet' = [vet EXCEPT ![t] = Opened("created")]
            /\ pc' = [pc EXCEPT ![t] = "acq_register"]
            /\ UNCHANGED <<retry_count, backoff_ms>>
       ELSE /\ BackoffAfterEmpty(t)
            /\ UNCHANGED <<pooled, vet>>
  /\ UNCHANGED <<pool, counters, active_connections, conn,
                 ret_pc, held, valid_connections>>
  /\ UNCHANGED aux

\* with self.active_connections_lock: active_connections[conn_id] = pooled_conn
AcquireRegister(t) ==
  /\ pc[t] = "acq_register"
  /\ active_connections' = active_connections \cup {conn[t]}
  /\ pc' = [pc EXCEPT ![t] = "acq_count"]
  /\ UNCHANGED <<pool, counters, pooled, conn, ret_pc,
                 acqLocals, held, valid_connections>>
  /\ UNCHANGED aux

\* with self.lock: active_count += 1; return pooled_conn.connection
AcquireCount(t) ==
  /\ pc[t] = "acq_count"
  /\ active_count' = active_count + 1
  /\ pc' = [pc EXCEPT ![t] = "acq_done"]
  /\ UNCHANGED <<pool, current_size, total_created, active_connections,
                 pooled, conn, ret_pc, acqLocals, held,
                 valid_connections>>
  /\ UNCHANGED aux

\* a final attempt that reads the head of the queue and leaves it there
AcquireFinalPeek(t) ==
  /\ pc[t] = "acq_final"
  /\ pool # <<>>
  /\ conn' = [conn EXCEPT ![t] = Head(pool)]
  /\ pooled' = MarkAcquired(Head(pool))
  /\ vet' = [vet EXCEPT ![t] = Taken(Head(pool), "final")]
  /\ pc' = [pc EXCEPT ![t] = "acq_register"]
  /\ UNCHANGED <<pool, counters, active_connections, ret_pc,
                 retry_count, backoff_ms, held, valid_connections>>
  /\ UNCHANGED aux

\* after the retries: pool.get(timeout=timeout) returns a handle
AcquireFinalGet(t) ==
  /\ pc[t] = "acq_final"
  /\ pool # <<>>
  /\ LET h == Head(pool) IN
       /\ pool' = Tail(pool)
       /\ conn' = [conn EXCEPT ![t] = h]
       /\ pooled' = MarkAcquired(h)
  /\ vet' = [vet EXCEPT ![t] = Taken(Head(pool), "final")]
  /\ pc' = [pc EXCEPT ![t] = "acq_register"]
  /\ UNCHANGED <<counters, active_connections, ret_pc,
                 retry_count, backoff_ms, held, valid_connections>>
  /\ UNCHANGED aux

\* a final pool.get() without timeout: on an empty queue it never returns
AcquireFinalNoTimeout(t) ==
  /\ pc[t] = "acq_final"
  /\ pool = <<>>
  /\ UNCHANGED vars

\* after the retries: pool.get(timeout=timeout) raises queue.Empty; return None
AcquireFinalEmpty(t) ==
  /\ pc[t] = "acq_final"
  /\ pool = <<>>
  /\ conn' = [conn EXCEPT ![t] = None]
  /\ pc' = [pc EXCEPT ![t] = "acq_done"]
  /\ UNCHANGED <<pool, counters, active_connections, pooled, ret_pc, acqLocals, held, valid_connections>>
  /\ UNCHANGED aux

\* the caller receives acquire's result and keeps the connection it got
AcquireReturn(t) ==
  /\ pc[t] = "acq_done"
  /\ held' = [held EXCEPT ![t] = IF conn[t] = None THEN @ ELSE @ \cup {conn[t]}]
  /\ conn' = [conn EXCEPT ![t] = None]
  /\ pc' = [pc EXCEPT ![t] = "rest"]
  /\ retry_count' = [retry_count EXCEPT ![t] = 0]
  /\ backoff_ms' = [backoff_ms EXCEPT ![t] = 100]
  /\ vet' = [vet EXCEPT ![t] = NotVetted]
  /\ UNCHANGED <<pool, counters, active_connections, pooled, ret_pc, valid_connections>>
  /\ UNCHANGED aux

\* ---- release ---------------------------------------------------------------
\* mark_released: acquired_at = None; last_used_at = time.time()
MarkReleased(h) ==
  [pooled EXCEPT ![h].acquired = FALSE, ![h].idle = 0]

\* a release that leaves the handle's entry in the in-flight map
ReleaseKeepsEntry(t, h) ==
  /\ t \in Workers
  /\ MayStart
  /\ pc[t] = "rest"
  /\ h \in held[t]
  /\ held' = [held EXCEPT ![t] = @ \ {h}]
  /\ conn' = [conn EXCEPT ![t] = h]
  /\ pc' = [pc EXCEPT ![t] = "rel_count"]
  /\ UNCHANGED <<pool, counters, active_connections, pooled, ret_pc,
                 acqLocals, valid_connections>>
  /\ UNCHANGED aux

\* a caller gives a connection it holds back:
\* with self.active_connections_lock: active_connections.pop(conn_id, None)
ReleasePop(t, h) ==
  /\ t \in Workers
  /\ MayStart
  /\ pc[t] = "rest"
  /\ h \in held[t]
  /\ held' = [held EXCEPT ![t] = @ \ {h}]
  /\ conn' = [conn EXCEPT ![t] = h]
  /\ active_connections' = active_connections \ {h}
  /\ pc' = [pc EXCEPT ![t] = "rel_count"]
  /\ UNCHANGED <<pool, counters, pooled, ret_pc, acqLocals,
                 valid_connections>>
  /\ UNCHANGED aux

\* a release that leaves active_count as it is
ReleaseCountKeeps(t) ==
  /\ pc[t] = "rel_count"
  /\ pc' = [pc EXCEPT ![t] = "rel_check"]
  /\ UNCHANGED <<pool, current_size, active_count, total_created,
                 active_connections, pooled, conn, ret_pc, acqLocals, held,
                 valid_connections>>
  /\ UNCHANGED aux

\* with self.lock: active_count = max(0, active_count - 1)
ReleaseCount(t) ==
  /\ pc[t] = "rel_count"
  /\ active_count' = DecFloor(active_count)
  /\ pc' = [pc EXCEPT ![t] = "rel_check"]
  /\ UNCHANGED <<pool, current_size, total_created, active_connections,
                 pooled, conn, ret_pc, acqLocals, held,
                 valid_connections>>
  /\ UNCHANGED aux

\* mark_released; expired -> close; valid and room in the queue -> put_nowait;
\* otherwise close
ReleaseCheck(t) ==
  /\ pc[t] = "rel_check"
  /\ LET h == conn[t] IN
       IF is_connection_expired(h)
         THEN /\ pooled' = Closed(h)
              /\ pool' = pool
              /\ pc' = [pc EXCEPT ![t] = "rel_exp_close"]
              /\ conn' = conn
         ELSE IF validate_connection(h) /\ ~QueueFull
           THEN /\ pooled' = MarkReleased(h)
                /\ pool' = Append(pool, h)
                /\ pc' = [pc EXCEPT ![t] = "rest"]
                /\ conn' = [conn EXCEPT ![t] = None]
           ELSE /\ pooled' = Closed(h)
                /\ pool' = pool
                /\ pc' = [pc EXCEPT ![t] = "rel_inv_close"]
                /\ conn' = conn
  /\ UNCHANGED <<counters, active_connections, ret_pc, acqLocals, held,
                 valid_connections>>
  /\ UNCHANGED aux

\* expired handle: _close_pooled_connection's count, then create a replacement
ReleaseExpiredClose(t) ==
  /\ pc[t] = "rel_exp_close"
  /\ current_size' = DecFloor(current_size)
  /\ pc' = [pc EXCEPT ![t] = "cci_check"]
  /\ ret_pc' = [ret_pc EXCEPT ![t] = "rel_recreated"]
  /\ UNCHANGED <<pool, active_count, total_created, active_connections,
                 pooled, conn, acqLocals, held,
                 valid_connections>>
  /\ UNCHANGED aux

\* `if new_conn: self.pool.put_nowait(new_conn)`; on queue.Full the except
\* branch runs _close_pooled_connection on the old handle once more
ReleaseRecreated(t) ==
  /\ pc[t] = "rel_recreated"
  /\ IF conn[t] = None
       THEN UNCHANGED <<pool, current_size>>
       ELSE IF ~QueueFull
         THEN /\ pool' = Append(pool, conn[t])
              /\ current_size' = current_size
         ELSE /\ pool' = pool
              /\ current_size' = DecFloor(current_size)
  /\ conn' = [conn EXCEPT ![t] = None]
  /\ pc' = [pc EXCEPT ![t] = "rest"]
  /\ UNCHANGED <<active_count, total_created, active_connections, pooled, ret_pc, acqLocals, held, valid_connections>>
  /\ UNCHANGED aux

\* invalid handle (or full queue): _close_pooled_connection's count
ReleaseInvalidClose(t) ==
  /\ pc[t] = "rel_inv_close"
  /\ current_size' = DecFloor(current_size)
  /\ conn' = [conn EXCEPT ![t] = None]
  /\ pc' = [pc EXCEPT ![t] = "rest"]
  /\ UNCHANGED <<pool, active_count, total_created, active_connections,
                 pooled, ret_pc, acqLocals, held,
                 valid_connections>>
  /\ UNCHANGED aux

\* ---- discard ---------------------------------------------------------------
\* with self.active_connections_lock: active_connections.pop(conn_id, None)
DiscardPop(t, h) ==
  /\ t \in Workers
  /\ MayStart
  /\ pc[t] = "rest"
  /\ h \in held[t]
  /\ held' = [held EXCEPT ![t] = @ \ {h}]
  /\ conn' = [conn EXCEPT ![t] = h]
  /\ active_connections' = active_connections \ {h}
  /\ pc' = [pc EXCEPT ![t] = "dis_count"]
  /\ UNCHANGED <<pool, counters, pooled, ret_pc, acqLocals,
                 valid_connections>>
  /\ UNCHANGED aux

\* with self.lock: active_count = max(0, active_count - 1)
DiscardCount(t) ==
  /\ pc[t] = "dis_count"
  /\ active_count' = DecFloor(active_count)
  /\ pc' = [pc EXCEPT ![t] = "dis_close"]
  /\ UNCHANGED <<pool, current_size, total_created, active_connections,
                 pooled, conn, ret_pc, acqLocals, held,
                 valid_connections>>
  /\ UNCHANGED aux

\* a discard that closes the connection and forgets current_size
DiscardCloseKeepsSize(t) ==
  /\ pc[t] = "dis_close"
  /\ pooled' = Closed(conn[t])
  /\ conn' = [conn EXCEPT ![t] = None]
  /\ pc' = [pc EXCEPT ![t] = "rest"]
  /\ UNCHANGED <<pool, counters, active_connections,
                 ret_pc, acqLocals, held, valid_connections>>
  /\ UNCHANGED aux

\* conn.close(); with self.lock: current_size = max(0, current_size - 1)
DiscardClose(t) ==
  /\ pc[t] = "dis_close"
  /\ pooled' = Closed(conn[t])
  /\ current_size' = DecFloor(current_size)
  /\ conn' = [conn EXCEPT ![t] = None]
  /\ pc' = [pc EXCEPT ![t] = "rest"]
  /\ UNCHANGED <<pool, active_count, total_created, active_connections,
                 ret_pc, acqLocals, held, valid_connections>>
  /\ UNCHANGED aux

\* ---- health check: _health_check_loop and _check_idle_connections ----------
hcRest == <<active_count, total_created, active_connections, ret_pc,
            acqLocals, held>>

\* time.sleep(idle_check_interval_seconds) ends; the sweep starts
SweepStart ==
  /\ pc[HC] = "hc_sleep"
  /\ MayStart
  /\ valid_connections' = <<>>
  /\ pc' = [pc EXCEPT ![HC] = "hc_get"]
  /\ UNCHANGED <<pool, current_size, pooled, conn, hcRest>>
  /\ UNCHANGED aux

\* a sweep without the max-lifetime check
SweepGetNoExpiry ==
  /\ pc[HC] = "hc_get"
  /\ pool # <<>>
  /\ pool' = Tail(pool)
  /\ conn' = [conn EXCEPT ![HC] = Head(pool)]
  /\ pc' = [pc EXCEPT ![HC] = "hc_idle"]
  /\ UNCHANGED <<current_size, pooled, valid_connections, hcRest>>
  /\ UNCHANGED aux

\* pool.get_nowait() returns a handle; [check 1] max lifetime
SweepGet ==
  /\ pc[HC] = "hc_get"
  /\ pool # <<>>
  /\ LET h == Head(pool) IN
       /\ pool' = Tail(pool)
       /\ conn' = [conn EXCEPT ![HC] = h]
       /\ IF is_connection_expired(h)
            THEN /\ pooled' = Closed(h)
                 /\ pc' = [pc EXCEPT ![HC] = "hc_exp_close"]
            ELSE /\ pooled' = pooled
                 /\ pc' = [pc EXCEPT ![HC] = "hc_idle"]
  /\ UNCHANGED <<current_size, valid_connections, hcRest>>
  /\ UNCHANGED aux

\* pool.get_nowait() raises queue.Empty: leave the loop
SweepEmpty ==
  /\ pc[HC] = "hc_get"
  /\ pool = <<>>
  /\ pc' = [pc EXCEPT ![HC] = "hc_putback"]
  /\ UNCHANGED <<pool, current_size, pooled, conn,
                 valid_connections, hcRest>>
  /\ UNCHANGED aux

\* expired handle: _close_pooled_connection's count, then create a replacement
SweepExpiredClose ==
  /\ pc[HC] = "hc_exp_close"
  /\ current_size' = DecFloor(current_size)
  /\ pc' = [pc EXCEPT ![HC] = "cci_check"]
  /\ ret_pc' = [ret_pc EXCEPT ![HC] = "hc_recycled"]
  /\ UNCHANGED <<pool, active_count, total_created, active_connections,
                 pooled, conn, acqLocals, held,
                 valid_connections>>
  /\ UNCHANGED aux

\* back from creating a replacement, of an expired handle ("hc_recycled") or
\* of one that failed its keepalive test ("hc_replaced"):
\* `if new_conn: valid_connections.append(new_conn)`; continue
SweepAppendNew ==
  /\ pc[HC] \in {"hc_recycled", "hc_replaced"}
  /\ valid_connections' = IF conn[HC] = None THEN valid_connections
                          ELSE Append(valid_connections, conn[HC])
  /\ conn' = [conn EXCEPT ![HC] = None]
  /\ pc' = [pc EXCEPT ![HC] = "hc_get"]
  /\ UNCHANGED <<pool, current_size, pooled, hcRest>>
  /\ UNCHANGED aux

\* [check 2] idle timeout (with self.lock: can_drop), [check 3] keepalive,
\* [check 4] final validation
IdleTooLong(h) ==
  /\ get_idle_seconds(h) # NoTime
  /\ idle_timeout_seconds > 0
  /\ CanDrop
  /\ get_idle_seconds(h) > idle_timeout_seconds

KeepaliveDue(h) ==
  /\ get_idle_seconds(h) # NoTime
  /\ keepalive_time_seconds > 0
  /\ get_idle_seconds(h) > keepalive_time_seconds

SweepExamine ==
  /\ pc[HC] = "hc_idle"
  /\ LET h == conn[HC] IN
       IF IdleTooLong(h)
         THEN /\ pooled' = Closed(h)
              /\ pc' = [pc EXCEPT ![HC] = "hc_idle_close"]
              /\ UNCHANGED <<valid_connections, conn>>
         ELSE IF KeepaliveDue(h)
           THEN IF ~validate_connection(h)
                  THEN /\ pooled' = Closed(h)
                       /\ pc' = [pc EXCEPT ![HC] = "hc_ka_close"]
                       /\ UNCHANGED <<valid_connections, conn>>
                  ELSE /\ pooled' = [pooled EXCEPT ![h].idle = 0]
                       /\ valid_connections' = Append(valid_connections, h)
                       /\ conn' = [conn EXCEPT ![HC] = None]
                       /\ pc' = [pc EXCEPT ![HC] = "hc_get"]
           ELSE IF validate_connection(h)
                  THEN /\ valid_connections' = Append(valid_connections, h)
                       /\ conn' = [conn EXCEPT ![HC] = None]
                       /\ pc' = [pc EXCEPT ![HC] = "hc_get"]
                       /\ pooled' = pooled
                  ELSE /\ pooled' = Closed(h)
                       /\ pc' = [pc EXCEPT ![HC] = "hc_inv_close"]
                       /\ UNCHANGED <<valid_connections, conn>>
  /\ UNCHANGED <<pool, current_size, hcRest>>
  /\ UNCHANGED aux

\* idle-timeout eviction: _close_pooled_connection's count; continue
SweepIdleClose ==
  /\ pc[HC] = "hc_idle_close"
  /\ current_size' = DecFloor(current_size)
  /\ conn' = [conn EXCEPT ![HC] = None]
  /\ pc' = [pc EXCEPT ![HC] = "hc_get"]
  /\ UNCHANGED <<pool, pooled, valid_connections, hcRest>>
  /\ UNCHANGED aux

\* failed keepalive: _close_pooled_connection's count, then create a replacement
SweepKeepaliveClose ==
  /\ pc[HC] = "hc_ka_close"
  /\ current_size' = DecFloor(current_size)
  /\ pc' = [pc EXCEPT ![HC] = "cci_check"]
  /\ ret_pc' = [ret_pc EXCEPT ![HC] = "hc_replaced"]
  /\ UNCHANGED <<pool, active_count, total_created, active_connections,
                 pooled, conn, acqLocals, held,
                 valid_connections>>
  /\ UNCHANGED aux

\* invalid handle at the final validation: _close_pooled_connection's count
SweepInvalidClose ==
  /\ pc[HC] = "hc_inv_close"
  /\ current_size' = DecFloor(current_size)
  /\ conn' = [conn EXCEPT ![HC] = None]
  /\ pc' = [pc EXCEPT ![HC] = "hc_get"]
  /\ UNCHANGED <<pool, pooled, valid_connections, hcRest>>
  /\ UNCHANGED aux

\* finally: one pool.put_nowait(conn) of the kept handles; on queue.Full the
\* handle is closed by _close_pooled_connection
SweepPutBack ==
  /\ pc[HC] = "hc_putback"
  /\ valid_connections # <<>>
  /\ LET h == Head(valid_connections) IN
       IF ~QueueFull
         THEN /\ pool' = Append(pool, h)
              /\ UNCHANGED <<pooled, current_size>>
         ELSE /\ pool' = pool
              /\ pooled' = Closed(h)
              /\ current_size' = DecFloor(current_size)
  /\ valid_connections' = Tail(valid_connections)
  /\ UNCHANGED <<pc, conn, hcRest>>
  /\ UNCHANGED aux

\* every kept handle is back in the queue: go on to the min_size top-up
SweepPutBackDone ==
  /\ pc[HC] = "hc_putback"
  /\ valid_connections = <<>>
  /\ pc' = [pc EXCEPT ![HC] = "hc_topup"]
  /\ UNCHANGED <<pool, current_size, pooled, conn,
                 valid_connections, hcRest>>
  /\ UNCHANGED aux

\* with self.lock: `if current_size >= min_size: break`, else create a handle
SweepTopUp ==
  /\ pc[HC] = "hc_topup"
  /\ IF current_size >= min_size
       THEN /\ pc' = [pc EXCEPT ![HC] = "hc_sleep"]
            /\ ret_pc' = ret_pc
       ELSE /\ pc' = [pc EXCEPT ![HC] = "cci_check"]
            /\ ret_pc' = [ret_pc EXCEPT ![HC] = "hc_topped"]
  /\ UNCHANGED <<pool, counters, active_connections, pooled, conn, acqLocals, held, valid_connections>>
  /\ UNCHANGED aux

\* `if not new_conn: break`; pool.put_nowait(new_conn), on queue.Full close it
\* and break
SweepToppedUp ==
  /\ pc[HC] = "hc_topped"
  /\ IF conn[HC] = None
       THEN /\ pc' = [pc EXCEPT ![HC] = "hc_sleep"]
            /\ UNCHANGED <<pool, pooled, current_size>>
       ELSE IF ~QueueFull
         THEN /\ pool' = Append(pool, conn[HC])
              /\ pc' = [pc EXCEPT ![HC] = "hc_topup"]
              /\ UNCHANGED <<pooled, current_size>>
         ELSE /\ pool' = pool
              /\ pooled' = Closed(conn[HC])
              /\ current_size' = DecFloor(current_size)
              /\ pc' = [pc EXCEPT ![HC] = "hc_sleep"]
  /\ conn' = [conn EXCEPT ![HC] = None]
  /\ UNCHANGED <<valid_connections, hcRest>>
  /\ UNCHANGED aux

\* ---- the system -----------------------------------------------------------
Create(t) ==
  \/ CreateCheck(t)
  \/ ConnectOk(t)
  \/ ConnectFail(t)

Acquire(t) ==
  \/ AcquireCall(t)
  \/ AcquireGet(t)
  \/ AcquireEmpty(t)
  \/ AcquireExpiredClose(t)
  \/ AcquireRecreated(t)
  \/ AcquireInvalidClose(t)
  \/ AcquireOnEmpty(t)
  \/ AcquireCreated(t)
  \/ AcquireRegister(t)
  \/ AcquireCount(t)
  \/ AcquireFinalGet(t)
  \/ AcquireFinalEmpty(t)
  \/ AcquireReturn(t)

Release(t) ==
  \/ \E h \in Handles : ReleasePop(t, h)
  \/ ReleaseCount(t)
  \/ ReleaseCheck(t)
  \/ ReleaseExpiredClose(t)
  \/ ReleaseRecreated(t)
  \/ ReleaseInvalidClose(t)

Discard(t) ==
  \/ \E h \in Handles : DiscardPop(t, h)
  \/ DiscardCount(t)
  \/ DiscardClose(t)

Sweep ==
  \/ SweepStart
  \/ SweepGet
  \/ SweepEmpty
  \/ SweepExpiredClose
  \/ SweepAppendNew
  \/ SweepExamine
  \/ SweepIdleClose
  \/ SweepKeepaliveClose
  \/ SweepInvalidClose
  \/ SweepPutBack
  \/ SweepPutBackDone
  \/ SweepTopUp
  \/ SweepToppedUp

Next ==
  \/ Tick
  \/ \E h \in Handles : Break(h)
  \/ \E t \in Threads : Create(t)
  \/ \E t \in Workers : Acquire(t)
  \/ \E t \in Workers : Release(t)
  \/ \E t \in Workers : Discard(t)
  \/ Sweep

Spec == Init /\ [][Next]_vars

\* ---- the exhausted pool ----------------------------------------------------
\* Every one of the max_size handles is held and no holder gives one back:
\* the callers only call acquire, and the health check finds nothing to do.
InitExhausted ==
  \E owner \in [1..max_size -> Workers] :
    /\ pool = <<>>
    /\ current_size = max_size
    /\ active_count = max_size
    /\ total_created = max_size
    /\ active_connections = 1..max_size
    /\ pooled = [h \in Handles |->
                   IF h <= max_size
                     THEN [state |-> "live", age |-> 0, idle |-> 0,
                           acquired |-> TRUE]
                     ELSE NoConnection("unborn")]
    /\ pc = [t \in Threads |-> IF t = HC THEN "hc_sleep" ELSE "rest"]
    /\ conn = [t \in Threads |-> None]
    /\ ret_pc = [t \in Threads |-> "none"]
    /\ retry_count = [t \in Workers |-> 0]
    /\ backoff_ms = [t \in Workers |-> 100]
    /\ vet = [t \in Workers |-> NotVetted]
    /\ held = [t \in Workers |-> {h \in 1..max_size : owner[h] = t}]
    /\ valid_connections = <<>>
    /\ AuxInit

\* the steps of an acquire that finds the queue empty and the pool full
AcquireWait(t) ==
  \/ AcquireEmpty(t)
  \/ AcquireOnEmpty(t)
  \/ AcquireFinalEmpty(t)
  \/ AcquireReturn(t)

\* the steps of a sweep over an empty queue
SweepIdle ==
  \/ SweepStart
  \/ SweepEmpty
  \/ SweepPutBackDone
  \/ SweepTopUp

NextExhausted ==
  \/ Tick
  \/ \E h \in Handles : Break(h)
  \/ \E t \in Workers : AcquireCall(t)
  \/ \E t \in Workers : AcquireWait(t)
  \/ SweepIdle

\* pool.get(timeout=...) returns or raises when its timeout is over, and a
\* thread that can run does run
SpecExhausted ==
  /\ InitExhausted
  /\ [][NextExhausted]_vars
  /\ \A t \in Workers : WF_vars(AcquireWait(t))

\* ---- callers that give a connection back twice -----------------------------
\* discard(conn) with a connection that is not in the in-flight map: one the
\* caller has already given back and that is closed by now.
\* active_connections.pop(conn_id, None) removes nothing.
DiscardAgain(t, h) ==
  /\ t \in Workers
  /\ MayStart
  /\ pc[t] = "rest"
  /\ pooled[h].state = "closed"
  /\ h \notin active_connections
  /\ conn' = [conn EXCEPT ![t] = h]
  /\ pc' = [pc EXCEPT ![t] = "dis_count"]
  /\ UNCHANGED <<pool, counters, active_connections, pooled, ret_pc,
                 acqLocals, held, valid_connections>>
  /\ UNCHANGED aux

\* release(conn) with such a connection: pop finds nothing and release wraps
\* the connection in a new PooledConnection
ReleaseAgain(t, h) ==
  /\ t \in Workers
  /\ MayStart
  /\ pc[t] = "rest"
  /\ pooled[h].state = "closed"
  /\ h \notin active_connections
  /\ conn' = [conn EXCEPT ![t] = h]
  /\ pc' = [pc EXCEPT ![t] = "rel_count"]
  /\ UNCHANGED <<pool, counters, active_connections, pooled, ret_pc,
                 acqLocals, held, valid_connections>>
  /\ UNCHANGED aux

\* Every handle of the pool is held; the callers release and discard what
\* they hold and may hand a connection in a second time.
NextMisuse ==
  \/ Tick
  \/ \E h \in Handles : Break(h)
  \/ \E t \in Workers : Create(t)
  \/ \E t \in Workers : Release(t)
  \/ \E t \in Workers : Discard(t)
  \/ \E t \in Workers : \E h \in Handles : DiscardAgain(t, h)
  \/ \E t \in Workers : \E h \in Handles : ReleaseAgain(t, h)

SpecMisuse == InitExhausted /\ [][NextMisuse]_vars

\* ---- close_all ---------------------------------------------------------------
\* The main thread calls close_all when the workers have stopped.  A worker
\* that has stopped may still hold a connection it never gave back.
\* _health_check_running = False and join(timeout=5): the health check is
\* asleep between two sweeps and does not start another one.
CloseAllStart ==
  /\ main = "running"
  /\ \A t \in Workers : pc[t] = "rest"
  /\ pc[HC] = "hc_sleep"
  /\ main' = "ca_drain"
  /\ UNCHANGED <<poolVars, attempt, clientVars, statVars, leakVars, rateVars>>

\* while not pool.empty(): pool.get_nowait(), and _close_pooled_connection
\* closes the connection
CloseAllGet ==
  /\ main = "ca_drain"
  /\ pool # <<>>
  /\ pool' = Tail(pool)
  /\ pooled' = Closed(Head(pool))
  /\ main' = "ca_count"
  /\ UNCHANGED <<counters, active_connections, pc, conn, ret_pc, acqLocals,
                 held, valid_connections, attempt, clientVars, statVars, leakVars, rateVars>>

\* _close_pooled_connection's count, under the lock
CloseAllCount ==
  /\ main = "ca_count"
  /\ current_size' = DecFloor(current_size)
  /\ main' = "ca_drain"
  /\ UNCHANGED <<pool, active_count, total_created, active_connections,
                 pooled, pc, conn, ret_pc, acqLocals, held,
                 valid_connections, attempt, clientVars, statVars, leakVars, rateVars>>

\* the queue is empty: under active_connections_lock every in-flight
\* connection is closed and the map is cleared; close_all returns
CloseAllActive ==
  /\ main = "ca_drain"
  /\ pool = <<>>
  /\ pooled' = [h \in Handles |->
                  IF h \in active_connections THEN NoConnection("closed")
                                              ELSE pooled[h]]
  /\ active_connections' = {}
  /\ main' = "closed"
  /\ UNCHANGED <<pool, counters, pc, conn, ret_pc, acqLocals, held,
                 valid_connections, attempt, clientVars, statVars, leakVars, rateVars>>

close_all ==
  \/ CloseAllStart
  \/ CloseAllGet
  \/ CloseAllCount
  \/ CloseAllActive

\* Every handle of the pool is held; the callers release and discard what
\* they hold, or keep it, until the main thread shuts the pool down.
NextShutdown ==
  \/ Tick
  \/ \E h \in Handles : Break(h)
  \/ main = "running" /\ \E t \in Workers : Create(t)
  \/ main = "running" /\ \E t \in Workers : Release(t)
  \/ main = "running" /\ \E t \in Workers : Discard(t)
  \/ close_all

SpecShutdown == InitExhausted /\ [][NextShutdown]_vars

\* ---- get_pool_stats ------------------------------------------------------------
\* Elsewhere every block under self.lock is one step and the lock is free
\* between steps.  Here the lock is spelled out: a caller takes it, writes
\* the counters as the blocks under `with self.lock` do, and gives it back
\* whenever it likes, or never.

LockAcquire(t) ==
  /\ lock = "free"
  /\ lock' = t
  /\ UNCHANGED <<poolVars, attempt, clientVars, main, monitor, stats, leakVars, rateVars>>

\* one of the writes the code makes under self.lock
LockedWrite(t) ==
  /\ lock = t
  /\ \/ current_size < max_size /\ current_size' = current_size + 1
        /\ UNCHANGED active_count
     \/ current_size' = DecFloor(current_size) /\ UNCHANGED active_count
     \/ active_count < MaxActive /\ active_count' = active_count + 1
        /\ UNCHANGED current_size
     \/ active_count' = DecFloor(active_count) /\ UNCHANGED current_size
  /\ UNCHANGED <<pool, total_created, active_connections, pooled, pc, conn,
                 ret_pc, acqLocals, held, valid_connections>>
  /\ UNCHANGED aux

LockRelease(t) ==
  /\ lock = t
  /\ lock' = "free"
  /\ UNCHANGED <<poolVars, attempt, clientVars, main, monitor, stats, leakVars, rateVars>>

StatsCall ==
  /\ monitor = "rest"
  /\ monitor' = "st_wait"
  /\ UNCHANGED <<poolVars, attempt, clientVars, main, lock, stats, leakVars, rateVars>>

\* self.lock.acquire(timeout=0.1) gets the lock
StatsLock ==
  /\ monitor = "st_wait"
  /\ lock = "free"
  /\ lock' = MON
  /\ monitor' = "st_locked"
  /\ UNCHANGED <<poolVars, attempt, clientVars, main, stats, leakVars, rateVars>>

\* self.lock.acquire(timeout=0.1) returns False after its 0.1 s: the values
\* are read without the lock and returned with status 'locked'
StatsTimeout ==
  /\ monitor = "st_wait"
  /\ lock # "free"
  /\ stats' = [pool_total |-> current_size, pool_active |-> active_count,
               pool_idle |-> Max(0, current_size - active_count),
               status |-> "locked"]
  /\ monitor' = "st_return"
  /\ UNCHANGED <<poolVars, attempt, clientVars, main, lock, leakVars, rateVars>>

\* a try block without its finally: the lock stays with the monitor
StatsReadKeepsLock ==
  /\ monitor = "st_locked"
  /\ stats' = [pool_total |-> current_size, pool_active |-> active_count,
               pool_idle |-> current_size - active_count,
               status |-> "ok"]
  /\ monitor' = "st_return"
  /\ UNCHANGED <<poolVars, attempt, clientVars, main, lock, leakVars, rateVars>>

\* the try block builds the result; finally: self.lock.release()
StatsRead ==
  /\ monitor = "st_locked"
  /\ stats' = [pool_total |-> current_size, pool_active |-> active_count,
               pool_idle |-> current_size - active_count,
               status |-> "ok"]
  /\ lock' = "free"
  /\ monitor' = "st_return"
  /\ UNCHANGED <<poolVars, attempt, clientVars, main, leakVars, rateVars>>

StatsReturn ==
  /\ monitor = "st_return"
  /\ monitor' = "rest"
  /\ UNCHANGED <<poolVars, attempt, clientVars, main, lock, stats, leakVars, rateVars>>

\* the steps of get_pool_stats after the call
get_pool_stats ==
  \/ StatsLock
  \/ StatsTimeout
  \/ StatsRead
  \/ StatsReturn

NextStats ==
  \/ \E t \in Workers : LockAcquire(t)
  \/ \E t \in Workers : LockedWrite(t)
  \/ \E t \in Workers : LockRelease(t)
  \/ StatsCall
  \/ get_pool_stats

\* lock.acquire(timeout=0.1) returns when its timeout is over, and the
\* monitoring thread runs when it can; no holder of the lock is ever bound
\* to give it back
SpecStats ==
  /\ InitExhausted
  /\ [][NextStats]_vars
  /\ WF_vars(get_pool_stats)

\* ---- the health check under fair scheduling ------------------------------------
\* One caller works with the pool while the health check sweeps; the health
\* check thread runs whenever it can: its sleep ends, and get_nowait,
\* put_nowait and the connection attempt all return.
NextSweep ==
  \/ Tick
  \/ \E h \in Handles : Break(h)
  \/ Create("w1")
  \/ Create(HC)
  \/ Acquire("w1")
  \/ Release("w1")
  \/ Discard("w1")
  \/ Sweep

SpecSweep ==
  /\ Init
  /\ [][NextSweep]_vars
  /\ WF_vars(Sweep \/ Create(HC))

\* ---- _detect_connection_leaks --------------------------------------------------
\* TickSeconds pass: the connections grow older, and so does the time for
\* which the in-flight ones have been held
TickHeld ==
  /\ \/ \E h \in Handles : Open(h) /\ Older(pooled[h]) # pooled[h]
     \/ \E h \in active_connections :
          acquired_seconds[h] <= leak_detection_threshold_seconds
  /\ pooled' = [h \in Handles |->
                  IF Open(h) THEN Older(pooled[h]) ELSE pooled[h]]
  /\ acquired_seconds' =
       [h \in Handles |->
          IF h \in active_connections
               /\ acquired_seconds[h] <= leak_detection_threshold_seconds
            THEN acquired_seconds[h] + TickSeconds
            ELSE acquired_seconds[h]]
  /\ UNCHANGED <<pool, counters, active_connections, pc, conn, ret_pc,
                 acqLocals, held, valid_connections>>
  /\ UNCHANGED <<attempt, clientVars, main, statVars, rateVars, leaked_connections,
                 total_leaked_warnings>>

get_acquired_duration_seconds(h) ==
  IF ~pooled[h].acquired THEN NoTime ELSE acquired_seconds[h]

\* a test that takes every in-flight handle for a leak
LeakedAlways(h) == h \in Handles

\* `if duration and duration > self.leak_detection_threshold_seconds`
Leaked(h) ==
  LET duration == get_acquired_duration_seconds(h) IN
    /\ duration # NoTime
    /\ duration # 0
    /\ duration > leak_detection_threshold_seconds

\* the pass over active_connections, under active_connections_lock
LeakScan ==
  /\ pc[HC] = "hc_sleep"
  /\ leaked_connections' = {h \in active_connections : Leaked(h)}
  /\ total_leaked_warnings + Cardinality(leaked_connections') <= MaxWarnings
  /\ pc' = [pc EXCEPT ![HC] = "hc_leak"]
  /\ UNCHANGED <<pool, counters, active_connections, pooled, conn, ret_pc,
                 acqLocals, held, valid_connections>>
  /\ UNCHANGED <<attempt, clientVars, main, statVars, rateVars, acquired_seconds,
                 total_leaked_warnings>>

\* a warning that also takes the leaked connection back: it closes it and
\* drops it from the in-flight map
LeakWarnReclaims ==
  /\ pc[HC] = "hc_leak"
  /\ leaked_connections # {}
  /\ LET leak == CHOOSE h \in leaked_connections :
                    \A g \in leaked_connections : h <= g IN
       /\ leaked_connections' = leaked_connections \ {leak}
       /\ pooled' = Closed(leak)
       /\ active_connections' = active_connections \ {leak}
  /\ total_leaked_warnings' = total_leaked_warnings + 1
  /\ UNCHANGED <<pool, counters, pc, conn, ret_pc, acqLocals, held,
                 valid_connections>>
  /\ UNCHANGED <<attempt, clientVars, main, statVars, rateVars, acquired_seconds>>

\* `for leak in leaked_connections: self.total_leaked_warnings += 1`
LeakWarn ==
  /\ pc[HC] = "hc_leak"
  /\ leaked_connections # {}
  /\ LET leak == CHOOSE h \in leaked_connections :
                    \A g \in leaked_connections : h <= g IN
       leaked_connections' = leaked_connections \ {leak}
  /\ total_leaked_warnings' = total_leaked_warnings + 1
  /\ UNCHANGED poolVars
  /\ UNCHANGED <<attempt, clientVars, main, statVars, rateVars, acquired_seconds>>

\* the loop is over; the health check sleeps again
LeakDone ==
  /\ pc[HC] = "hc_leak"
  /\ leaked_connections = {}
  /\ pc' = [pc EXCEPT ![HC] = "hc_sleep"]
  /\ UNCHANGED <<pool, counters, active_connections, pooled, conn, ret_pc,
                 acqLocals, held, valid_connections>>
  /\ UNCHANGED aux

detect_connection_leaks ==
  \/ LeakScan
  \/ LeakWarn
  \/ LeakDone

\* Every handle of the pool is held; time passes, the callers release or
\* discard what they hold or keep it, and the health check looks for leaks.
NextLeak ==
  \/ TickHeld
  \/ \E h \in Handles : Break(h)
  \/ \E t \in Workers : Create(t)
  \/ \E t \in Workers : Release(t)
  \/ \E t \in Workers : Discard(t)
  \/ detect_connection_leaks

SpecLeak == InitExhausted /\ [][NextLeak]_vars

\* ---- RateLimiter ---------------------------------------------------------------
\* The limiter is made only for target_tps > 0 (enabled is then True).  Time
\* and tokens are counted in steps of 1/Scale; time.time() does not run
\* backwards.
timeout == Scale \div 2

RlTick ==
  /\ clock < MaxClock
  /\ clock' = clock + 1
  /\ UNCHANGED <<poolVars, attempt, clientVars, main, statVars, leakVars, target_tps,
                 max_tokens, tokens, last_refill, rl_pc, start_time, granted>>

\* start_time = time.time()
RlCall(t) ==
  /\ rl_pc[t] = "rest"
  /\ start_time' = [start_time EXCEPT ![t] = clock]
  /\ rl_pc' = [rl_pc EXCEPT ![t] = "rl_lock"]
  /\ UNCHANGED <<poolVars, attempt, clientVars, main, statVars, leakVars, target_tps,
                 max_tokens, tokens, last_refill, clock, granted>>

\* a refill without the ceiling
RefilledNoCap == tokens + (clock - last_refill) * target_tps

\* tokens after the refill: min(max_tokens, tokens + elapsed * target_tps)
Refilled == Min(max_tokens, tokens + (clock - last_refill) * target_tps)

\* a token that costs nothing
SpendNothing(n) == n

\* self.tokens -= 1
Spend(n) == n - Scale

\* the block under `with self.lock`: refill, then take a token if there is one
RlTake(t) ==
  /\ rl_pc[t] = "rl_lock"
  /\ last_refill' = clock
  /\ IF Refilled >= Scale
       THEN /\ tokens' = Spend(Refilled)
            /\ granted' = [granted EXCEPT ![clock] = @ + 1]
            /\ rl_pc' = [rl_pc EXCEPT ![t] = "rest"]
       ELSE /\ tokens' = Refilled
            /\ rl_pc' = [rl_pc EXCEPT ![t] = "rl_check"]
            /\ UNCHANGED granted
  /\ UNCHANGED <<poolVars, attempt, clientVars, main, statVars, leakVars, target_tps,
                 max_tokens, clock, start_time>>

\* `if time.time() - start_time > timeout: return False`, else sleep and loop
RlCheck(t) ==
  /\ rl_pc[t] = "rl_check"
  /\ rl_pc' = [rl_pc EXCEPT ![t] = IF clock - start_time[t] > timeout
                                     THEN "rest" ELSE "rl_lock"]
  /\ UNCHANGED <<poolVars, attempt, clientVars, main, statVars, leakVars, target_tps,
                 max_tokens, tokens, last_refill, clock, start_time, granted>>

\* before the pool is made: nothing is open and every thread is at rest
NoPool ==
  /\ pool = <<>>
  /\ current_size = 0
  /\ active_count = 0
  /\ total_created = 0
  /\ active_connections = {}
  /\ pooled = [h \in Handles |-> NoConnection("unborn")]
  /\ pc = [t \in Threads |-> IF t = HC THEN "hc_sleep" ELSE "rest"]
  /\ conn = [t \in Threads |-> None]
  /\ ret_pc = [t \in Threads |-> "none"]
  /\ retry_count = [t \in Workers |-> 0]
  /\ backoff_ms = [t \in Workers |-> 100]
  /\ vet = [t \in Workers |-> NotVetted]
  /\ held = [t \in Workers |-> {}]
  /\ valid_connections = <<>>

InitRateLimiter ==
  /\ NoPool
  /\ OtherInit
  /\ ClientInit
  /\ \E N \in 1..MaxRate : RateInit(N)

NextRateLimiter ==
  \/ RlTick
  \/ \E t \in Workers : RlCall(t)
  \/ \E t \in Workers : RlTake(t)
  \/ \E t \in Workers : RlCheck(t)

SpecRateLimiter == InitRateLimiter /\ [][NextRateLimiter]_vars

\* ---- LoadTestWorker.run ----------------------------------------------------------
\* The workers as the program runs them.  A call into the pool is taken as one
\* step here, with the effect the pool's own steps give it: what acquire hands
\* out is in the in-flight map and counted, release and discard take it out.
poolState == <<pool, current_size, active_count, total_created,
               active_connections, pooled, held>>
poolLocals == <<pc, conn, ret_pc, retry_count, backoff_ms, vet,
                valid_connections>>

\* what pool.acquire can hand out: the head of the idle queue, or, with the
\* queue empty and capacity left, a new connection; None stands for none
Gettable ==
  IF pool # <<>> THEN {Head(pool)}
  ELSE IF HasCapacity /\ Unborn # {} THEN {FreshHandle} ELSE {}

\* db_adapter.get_connection() returns h
get_connection(t, h) ==
  IF h = None
    THEN UNCHANGED poolState
    ELSE /\ h \in Gettable
         /\ pool' = IF pool # <<>> THEN Tail(pool) ELSE pool
         /\ current_size' = IF pool # <<>> THEN current_size
                                           ELSE current_size + 1
         /\ total_created' = IF pool # <<>> THEN total_created
                                            ELSE total_created + 1
         /\ pooled' = IF pool # <<>>
                        THEN MarkAcquired(h)
                        ELSE [pooled EXCEPT ![h] =
                                [state |-> "live", age |-> 0, idle |-> 0,
                                 acquired |-> TRUE]]
         /\ active_connections' = active_connections \cup {h}
         /\ active_count' = active_count + 1
         /\ held' = [held EXCEPT ![t] = @ \cup {h}]

\* db_adapter.discard_connection(h): `if connection and self.pool`
discard_connection(t, h) ==
  IF h = None
    THEN UNCHANGED poolState
    ELSE /\ active_connections' = active_connections \ {h}
         /\ active_count' = DecFloor(active_count)
         /\ pooled' = Closed(h)
         /\ current_size' = DecFloor(current_size)
         /\ held' = [held EXCEPT ![t] = @ \ {h}]
         /\ UNCHANGED <<pool, total_created>>

\* db_adapter.release_connection(h): a valid connection goes back to the idle
\* queue, any other is closed
release_connection(t, h) ==
  IF h = None
    THEN UNCHANGED poolState
    ELSE /\ active_connections' = active_connections \ {h}
         /\ active_count' = DecFloor(active_count)
         /\ held' = [held EXCEPT ![t] = @ \ {h}]
         /\ UNCHANGED total_created
         /\ IF validate_connection(h) /\ ~is_connection_expired(h)
                /\ ~QueueFull
              THEN /\ pool' = Append(pool, h)
                   /\ pooled' = [pooled EXCEPT ![h].acquired = FALSE,
                                               ![h].idle = 0]
                   /\ UNCHANGED current_size
              ELSE /\ pooled' = Closed(h)
                   /\ current_size' = DecFloor(current_size)
                   /\ UNCHANGED pool

\* self._is_connection_valid(connection)
is_connection_valid(h) == h # None /\ pooled[h].state = "live"

\* a backoff without its ceiling
GrowBackoffUnbounded(b) == b * 2

\* min(self.current_backoff_ms * 2, self.MAX_BACKOFF_MS)
GrowBackoff(b) == Min(b * 2, MAX_BACKOFF_MS)

\* consecutive_errors += 1, counted up to 2
MoreErrors(n) == Min(n + 1, 2)

perfCounts == <<total_errors, verification_failures, connection_recreates>>
gvLocals == <<gv_retry, gv_conn, gv_ret>>
flags == <<shutdown_requested, time_up>>

\* the signal handler, or request_shutdown()
ShutdownRequest ==
  /\ ~shutdown_requested
  /\ shutdown_requested' = TRUE
  /\ UNCHANGED <<poolVars, notWorker, wpc, connection, consecutive_errors,
                 current_backoff_ms, gvLocals, time_up, perfCounts>>

\* the clock reaches end_time
TimeUp ==
  /\ ~time_up
  /\ time_up' = TRUE
  /\ UNCHANGED <<poolVars, notWorker, wpc, connection, consecutive_errors,
                 current_backoff_ms, gvLocals, shutdown_requested,
                 perfCounts>>

\* `while datetime.now() < self.end_time:` and the shutdown test
WLoopTest(t) ==
  /\ wpc[t] = "w_top"
  /\ wpc' = [wpc EXCEPT ![t] = IF time_up \/ shutdown_requested
                                 THEN "w_exit" ELSE "w_rate"]
  /\ UNCHANGED <<poolVars, notWorker, connection, consecutive_errors,
                 current_backoff_ms, gvLocals, flags, perfCounts>>

\* rate_limiter.acquire(timeout=0.5): a token, or `continue`
WRateLimit(t) ==
  /\ wpc[t] = "w_rate"
  /\ \E next \in {"w_body", "w_top"} : wpc' = [wpc EXCEPT ![t] = next]
  /\ UNCHANGED <<poolVars, notWorker, connection, consecutive_errors,
                 current_backoff_ms, gvLocals, flags, perfCounts>>

\* `if connection is None:` acquire one; else validate the one held, and
\* discard it and look for another when it is not valid
WBody(t) ==
  /\ wpc[t] = "w_body"
  /\ IF connection[t] = None
       THEN /\ wpc' = [wpc EXCEPT ![t] = "gv_get"]
            /\ gv_retry' = [gv_retry EXCEPT ![t] = 0]
            /\ gv_ret' = [gv_ret EXCEPT ![t] = "w_got"]
            /\ UNCHANGED poolState
       ELSE IF is_connection_valid(connection[t])
         THEN /\ wpc' = [wpc EXCEPT ![t] = "w_data"]
              /\ UNCHANGED <<poolState, gv_retry, gv_ret>>
         ELSE /\ discard_connection(t, connection[t])
              /\ wpc' = [wpc EXCEPT ![t] = "gv_get"]
              /\ gv_retry' = [gv_retry EXCEPT ![t] = 0]
              /\ gv_ret' = [gv_ret EXCEPT ![t] = "w_reval"]
  /\ UNCHANGED <<poolLocals, notWorker, connection, consecutive_errors,
                 current_backoff_ms, gv_conn, flags, perfCounts>>

\* _get_valid_connection: conn = self.db_adapter.get_connection()
GvGet(t) ==
  /\ wpc[t] = "gv_get"
  /\ \E h \in {None} \cup Gettable :
       /\ get_connection(t, h)
       /\ gv_conn' = [gv_conn EXCEPT ![t] = h]
  /\ wpc' = [wpc EXCEPT ![t] = "gv_check"]
  /\ UNCHANGED <<poolLocals, notWorker, connection, consecutive_errors,
                 current_backoff_ms, gv_retry, gv_ret, flags, perfCounts>>

\* a valid connection is returned with the backoff reset; an invalid one is
\* discarded; after a try but the last the worker sleeps and doubles the backoff
GvCheck(t) ==
  /\ wpc[t] = "gv_check"
  /\ IF is_connection_valid(gv_conn[t])
       THEN /\ current_backoff_ms' = [current_backoff_ms EXCEPT ![t] = 100]
            /\ wpc' = [wpc EXCEPT ![t] = gv_ret[t]]
            /\ UNCHANGED <<poolState, gv_retry, gv_conn,
                           connection_recreates>>
       ELSE /\ discard_connection(t, gv_conn[t])
            /\ connection_recreates' =
                 IF gv_conn[t] # None THEN connection_recreates + 1
                                      ELSE connection_recreates
            /\ gv_conn' = [gv_conn EXCEPT ![t] = None]
            /\ IF gv_retry[t] < MAX_CONNECTION_RETRIES - 1
                 THEN /\ current_backoff_ms' =
                           [current_backoff_ms EXCEPT ![t] = GrowBackoff(@)]
                      /\ gv_retry' = [gv_retry EXCEPT ![t] = @ + 1]
                      /\ wpc' = [wpc EXCEPT ![t] = "gv_get"]
                 ELSE /\ wpc' = [wpc EXCEPT ![t] = "gv_last"]
                      /\ UNCHANGED <<current_backoff_ms, gv_retry>>
  /\ UNCHANGED <<poolLocals, notWorker, connection, consecutive_errors,
                 gv_ret, flags, total_errors, verification_failures>>

\* `return self.db_adapter.get_connection()` after the last try
GvLast(t) ==
  /\ wpc[t] = "gv_last"
  /\ \E h \in {None} \cup Gettable :
       /\ get_connection(t, h)
       /\ gv_conn' = [gv_conn EXCEPT ![t] = h]
  /\ wpc' = [wpc EXCEPT ![t] = gv_ret[t]]
  /\ UNCHANGED <<poolLocals, notWorker, connection, consecutive_errors,
                 current_backoff_ms, gv_retry, gv_ret, flags, perfCounts>>

\* connection = self._get_valid_connection() with no connection held: on
\* success the error count and the backoff are reset; on failure the worker
\* sleeps (with the backoff from the second failure on) and continues
WGot(t) ==
  /\ wpc[t] = "w_got"
  /\ connection' = [connection EXCEPT ![t] = gv_conn[t]]
  /\ IF gv_conn[t] # None
       THEN /\ consecutive_errors' = [consecutive_errors EXCEPT ![t] = 0]
            /\ current_backoff_ms' = [current_backoff_ms EXCEPT ![t] = 100]
            /\ wpc' = [wpc EXCEPT ![t] = "w_data"]
       ELSE /\ consecutive_errors' =
                 [consecutive_errors EXCEPT ![t] = MoreErrors(@)]
            /\ current_backoff_ms' =
                 [current_backoff_ms EXCEPT ![t] =
                    IF MoreErrors(consecutive_errors[t]) >= 2
                      THEN GrowBackoff(@) ELSE @]
            /\ wpc' = [wpc EXCEPT ![t] = "w_top"]
  /\ UNCHANGED <<poolVars, notWorker, gvLocals, flags, perfCounts>>

\* connection = self._get_valid_connection() in place of the discarded one
WReval(t) ==
  /\ wpc[t] = "w_reval"
  /\ connection' = [connection EXCEPT ![t] = gv_conn[t]]
  /\ connection_recreates' = connection_recreates + 1
  /\ wpc' = [wpc EXCEPT ![t] = "w_data"]
  /\ UNCHANGED <<poolVars, notWorker, consecutive_errors, current_backoff_ms,
                 gvLocals, flags, total_errors, verification_failures>>

\* the modes that need data ask for max_id: the query may raise, or find the
\* table empty (sleep and continue); the other modes go on to the operation
WData(t) ==
  /\ wpc[t] = "w_data"
  /\ \/ wpc' = [wpc EXCEPT ![t] = "w_op"]
     \/ wpc' = [wpc EXCEPT ![t] = "w_top"]
     \/ /\ total_errors < MaxCount
        /\ wpc' = [wpc EXCEPT ![t] = "w_except"]
  /\ UNCHANGED <<poolVars, notWorker, connection, consecutive_errors,
                 current_backoff_ms, gvLocals, flags, perfCounts>>

\* the operation returns True
WOpSuccess(t) ==
  /\ wpc[t] = "w_op"
  /\ is_connection_valid(connection[t])
  /\ consecutive_errors' = [consecutive_errors EXCEPT ![t] = 0]
  /\ current_backoff_ms' = [current_backoff_ms EXCEPT ![t] = 100]
  /\ wpc' = [wpc EXCEPT ![t] = "w_top"]
  /\ UNCHANGED <<poolVars, notWorker, connection, gvLocals, flags,
                 perfCounts>>

\* `if not success:` with a limit that is never reached
OperationFailedKeeps(t) ==
  /\ consecutive_errors' = [consecutive_errors EXCEPT ![t] = MoreErrors(@)]
  /\ UNCHANGED <<poolState, connection, connection_recreates,
                 current_backoff_ms>>
  /\ wpc' = [wpc EXCEPT ![t] = "w_top"]

\* `if not success:` the second failure in a row discards the connection
OperationFailed(t) ==
  /\ consecutive_errors' = [consecutive_errors EXCEPT ![t] = MoreErrors(@)]
  /\ IF MoreErrors(consecutive_errors[t]) >= 2
       THEN /\ discard_connection(t, connection[t])
            /\ connection' = [connection EXCEPT ![t] = None]
            /\ connection_recreates' = connection_recreates + 1
            /\ current_backoff_ms' =
                 [current_backoff_ms EXCEPT ![t] = GrowBackoff(@)]
       ELSE UNCHANGED <<poolState, connection, connection_recreates,
                        current_backoff_ms>>
  /\ wpc' = [wpc EXCEPT ![t] = "w_top"]

\* the adapter raises inside the operation (or there is no connection to
\* run it on): log_error, increment_error, rollback, return False
WOpError(t) ==
  /\ wpc[t] = "w_op"
  /\ total_errors < MaxCount \/ ~is_connection_valid(connection[t])
  /\ total_errors' = total_errors + 1
  /\ OperationFailed(t)
  /\ UNCHANGED <<poolLocals, notWorker, gvLocals, flags,
                 verification_failures>>

\* execute_full reads back no row, or another id:
\* increment_verification_failure, return False
WOpVerificationFailure(t) ==
  /\ wpc[t] = "w_op"
  /\ is_connection_valid(connection[t])
  /\ verification_failures < MaxCount
  /\ verification_failures' = verification_failures + 1
  /\ OperationFailed(t)
  /\ UNCHANGED <<poolLocals, notWorker, gvLocals, flags, total_errors>>

\* an except clause that lets the exception go on
WExceptRaises(t) ==
  /\ wpc[t] = "w_except"
  /\ total_errors' = total_errors + 1
  /\ wpc' = [wpc EXCEPT ![t] = "w_done"]
  /\ UNCHANGED <<poolVars, notWorker, connection, consecutive_errors,
                 current_backoff_ms, gvLocals, flags, verification_failures,
                 connection_recreates>>

\* an except block that discards the connection and keeps its reference
WExceptKeepsReference(t) ==
  /\ wpc[t] = "w_except"
  /\ total_errors' = total_errors + 1
  /\ discard_connection(t, connection[t])
  /\ connection_recreates' =
       IF connection[t] # None THEN connection_recreates + 1
                               ELSE connection_recreates
  /\ current_backoff_ms' = [current_backoff_ms EXCEPT ![t] = GrowBackoff(@)]
  /\ wpc' = [wpc EXCEPT ![t] = "w_top"]
  /\ UNCHANGED <<poolLocals, notWorker, connection, consecutive_errors,
                 gvLocals, flags, verification_failures>>

\* `except Exception`: log_error, increment_error, discard the connection
\* held, sleep and double the backoff
WExcept(t) ==
  /\ wpc[t] = "w_except"
  /\ total_errors' = total_errors + 1
  /\ discard_connection(t, connection[t])
  /\ connection' = [connection EXCEPT ![t] = None]
  /\ connection_recreates' =
       IF connection[t] # None THEN connection_recreates + 1
                               ELSE connection_recreates
  /\ current_backoff_ms' = [current_backoff_ms EXCEPT ![t] = GrowBackoff(@)]
  /\ wpc' = [wpc EXCEPT ![t] = "w_top"]
  /\ UNCHANGED <<poolLocals, notWorker, consecutive_errors, gvLocals, flags,
                 verification_failures>>

\* a worker that ends without giving its connection back
WExitKeeps(t) ==
  /\ wpc[t] = "w_exit"
  /\ wpc' = [wpc EXCEPT ![t] = "w_done"]
  /\ UNCHANGED <<poolVars, notWorker, connection, consecutive_errors,
                 current_backoff_ms, gvLocals, flags, perfCounts>>

\* after the loop: `if connection: release_connection(connection)`; return
WExit(t) ==
  /\ wpc[t] = "w_exit"
  /\ release_connection(t, connection[t])
  /\ wpc' = [wpc EXCEPT ![t] = "w_done"]
  /\ UNCHANGED <<poolLocals, notWorker, connection, consecutive_errors,
                 current_backoff_ms, gvLocals, flags, perfCounts>>

get_valid_connection(t) ==
  \/ GvGet(t)
  \/ GvCheck(t)
  \/ GvLast(t)

run(t) ==
  \/ WLoopTest(t)
  \/ WRateLimit(t)
  \/ WBody(t)
  \/ get_valid_connection(t)
  \/ WGot(t)
  \/ WReval(t)
  \/ WData(t)
  \/ WOpSuccess(t)
  \/ WOpError(t)
  \/ WOpVerificationFailure(t)
  \/ WExcept(t)
  \/ WExit(t)

\* the workers that main() starts
Runners == {"w1"}

NextWorker ==
  \/ \E h \in Handles : Break(h)
  \/ ShutdownRequest
  \/ TimeUp
  \/ \E t \in Runners : run(t)

\* a worker that can take a step does take one: every call it makes returns
\* (the pool's waits, the limiter's wait and the sleeps are all bounded)
SpecWorker ==
  /\ Init
  /\ [][NextWorker]_vars
  /\ \A t \in Runners : WF_vars(run(t))

\* ---- LoadTestWorker.log_error ---------------------------------------------------
\* the worker's fields and counters that logging leaves alone
workRest == <<wpc, connection, consecutive_errors, current_backoff_ms,
              gvLocals, flags, verification_failures, connection_recreates>>

\* time passes
LogTick ==
  /\ log_now + LogTickSeconds <= Epoch + LogSpan
  /\ log_now' = log_now + LogTickSeconds
  /\ UNCHANGED <<poolVars, serverAux, perfVars, workVars, last_error_log_time,
                 suppressed_error_count, warned_at, failures>>

\* int(time.time() * 1000)
now_ms == log_now * 1000

\* a log_error that warns every time
LogsEveryError(t) == TRUE

\* `if now_ms - self.last_error_log_time > self.ERROR_LOG_INTERVAL_MS`
LogsThisError(t) == now_ms - last_error_log_time[t] > ERROR_LOG_INTERVAL_MS

\* self.log_error(operation, message): a warning, or a suppressed error
log_error(t) ==
  /\ failures' = [failures EXCEPT ![t] = @ + 1]
  /\ IF LogsThisError(t)
       THEN /\ warned_at' =
                 [warned_at EXCEPT ![t] =
                    Append(@, [at |-> now_ms, call |-> failures[t] + 1,
                               suppressed |-> suppressed_error_count[t]])]
            /\ last_error_log_time' =
                 [last_error_log_time EXCEPT ![t] = now_ms]
            /\ suppressed_error_count' =
                 [suppressed_error_count EXCEPT ![t] = 0]
       ELSE /\ suppressed_error_count' =
                 [suppressed_error_count EXCEPT ![t] = @ + 1]
            /\ UNCHANGED <<warned_at, last_error_log_time>>

\* the adapter raises inside an operation (the except clause of execute_*),
\* or inside the loop of run (its except clause): log_error, increment_error
OperationRaises(t) ==
  /\ failures[t] < MaxFailures
  /\ log_error(t)
  /\ total_errors' = total_errors + 1
  /\ UNCHANGED <<poolVars, serverAux, perfVars, workRest, log_now>>

\* run, with no connection: "Waiting for connection..." every 5 seconds,
\* timed with the same field, in seconds
WaitingForConnection(t) ==
  /\ log_now - last_error_log_time[t] > 5
  /\ last_error_log_time' = [last_error_log_time EXCEPT ![t] = log_now]
  /\ UNCHANGED <<poolVars, serverAux, perfVars, workVars, log_now,
                 suppressed_error_count, warned_at, failures>>

NextErrorLog ==
  \/ LogTick
  \/ \E t \in Runners : OperationRaises(t)
  \/ \E t \in Runners : WaitingForConnection(t)

InitErrorLog ==
  /\ NoPool
  /\ OtherInit
  /\ RateInit(1)
  /\ ClientInit

SpecErrorLog == InitErrorLog /\ [][NextErrorLog]_vars

\* ---- PerformanceCounter -------------------------------------------------------
\* what the counter's methods leave alone
notCounter == <<poolVars, serverAux, workVars, logVars, latencyVars, sideVars>>

\* time passes
PerfTick ==
  /\ perf_now < MaxPerfClock
  /\ perf_now' = perf_now + 1
  /\ UNCHANGED <<notCounter, warmup_end_time, perf_lock, total_transactions,
                 post_warmup_transactions, total_inserts, recent_transactions,
                 ppc, current_time, count, loaded, snapshot, tps, call_times,
                 recorded, issued>>

\* how many of the timestamps counted in b are at or after cutoff
RECURSIVE CountFrom(_, _, _)
CountFrom(b, cutoff, i) ==
  IF i > MaxPerfClock THEN 0
  ELSE (IF i >= cutoff THEN b[i] ELSE 0) + CountFrom(b, cutoff, i + 1)

\* `while q and q[0] < cutoff: q.popleft()`
RECURSIVE Evict(_, _)
Evict(q, cutoff) ==
  IF q # <<>> /\ Head(q) < cutoff THEN Evict(Tail(q), cutoff) ELSE q

\* a warmup test that leaves out the boundary itself
AfterWarmupStrict(ct) == warmup_end_time # NoTime /\ ct > warmup_end_time

\* `if self.warmup_end_time and current_time >= self.warmup_end_time`
AfterWarmup(ct) == warmup_end_time # NoTime /\ ct >= warmup_end_time

\* record_transaction: current_time = time.time()
RtCall(t) ==
  /\ ppc[t] = "idle"
  /\ CountFrom(call_times, 0, 0) < MaxCalls
  /\ ppc' = [ppc EXCEPT ![t] = "rt_count"]
  /\ current_time' = [current_time EXCEPT ![t] = perf_now]
  /\ call_times' = [call_times EXCEPT ![perf_now] = @ + 1]
  /\ UNCHANGED <<notCounter, perf_now, warmup_end_time, perf_lock,
                 total_transactions, post_warmup_transactions, total_inserts,
                 recent_transactions, count, loaded, snapshot, tps, recorded,
                 issued>>

\* record_transaction: the block under self.lock
RtCount(t) ==
  /\ ppc[t] = "rt_count"
  /\ perf_lock = "free"
  /\ total_transactions' = total_transactions + 1
  /\ post_warmup_transactions' =
       IF AfterWarmup(current_time[t]) THEN post_warmup_transactions + 1
                                       ELSE post_warmup_transactions
  /\ ppc' = [ppc EXCEPT ![t] = "rt_recent"]
  /\ UNCHANGED <<notCounter, perf_now, warmup_end_time, perf_lock,
                 total_inserts, recent_transactions, current_time, count,
                 loaded, snapshot, tps, call_times, recorded, issued>>

\* record_transaction: the block under self.recent_lock
RtRecent(t) ==
  /\ ppc[t] = "rt_recent"
  /\ recent_transactions' =
       Evict(Append(recent_transactions, current_time[t]),
             current_time[t] - Scale)
  /\ recorded' = [recorded EXCEPT ![current_time[t]] = @ + 1]
  /\ ppc' = [ppc EXCEPT ![t] = "idle"]
  /\ current_time' = [current_time EXCEPT ![t] = 0]
  /\ UNCHANGED <<notCounter, perf_now, warmup_end_time, perf_lock,
                 total_transactions, post_warmup_transactions, total_inserts,
                 count, loaded, snapshot, tps, call_times, issued>>

\* the increments called and not yet returned
RECURSIVE Pending(_)
Pending(S) ==
  IF S = {} THEN 0
  ELSE LET t == CHOOSE x \in S : TRUE IN
         (IF ppc[t] \in {"inc_lock", "inc_load", "inc_store"}
            THEN count[t] ELSE 0) + Pending(S \ {t})

\* increment_insert(n) is called
IncCall(t, n) ==
  /\ ppc[t] = "idle"
  /\ issued + Pending(Workers) + n <= MaxInserts
  /\ count' = [count EXCEPT ![t] = n]
  /\ ppc' = [ppc EXCEPT ![t] = "inc_lock"]
  /\ UNCHANGED <<notCounter, perf_now, warmup_end_time, perf_lock,
                 total_transactions, post_warmup_transactions, total_inserts,
                 recent_transactions, current_time, loaded, snapshot, tps,
                 call_times, recorded, issued>>

\* an increment that does not take the lock
IncLockNone(t) ==
  /\ ppc[t] = "inc_lock"
  /\ ppc' = [ppc EXCEPT ![t] = "inc_load"]
  /\ UNCHANGED <<notCounter, perf_now, warmup_end_time, perf_lock,
                 total_transactions, post_warmup_transactions, total_inserts,
                 recent_transactions, current_time, count, loaded, snapshot,
                 tps, call_times, recorded, issued>>

\* `with self.lock:`
IncLock(t) ==
  /\ ppc[t] = "inc_lock"
  /\ perf_lock = "free"
  /\ perf_lock' = t
  /\ ppc' = [ppc EXCEPT ![t] = "inc_load"]
  /\ UNCHANGED <<notCounter, perf_now, warmup_end_time, total_transactions,
                 post_warmup_transactions, total_inserts, recent_transactions,
                 current_time, count, loaded, snapshot, tps, call_times,
                 recorded, issued>>

\* `self.total_inserts += count`: the counter is read
IncLoad(t) ==
  /\ ppc[t] = "inc_load"
  /\ loaded' = [loaded EXCEPT ![t] = total_inserts]
  /\ ppc' = [ppc EXCEPT ![t] = "inc_store"]
  /\ UNCHANGED <<notCounter, perf_now, warmup_end_time, perf_lock,
                 total_transactions, post_warmup_transactions, total_inserts,
                 recent_transactions, current_time, count, snapshot, tps,
                 call_times, recorded, issued>>

\* `self.total_inserts += count`: the sum is written, and the lock released
IncStore(t) ==
  /\ ppc[t] = "inc_store"
  /\ total_inserts' = loaded[t] + count[t]
  /\ issued' = issued + count[t]
  /\ perf_lock' = "free"
  /\ ppc' = [ppc EXCEPT ![t] = "idle"]
  /\ count' = [count EXCEPT ![t] = 0]
  /\ loaded' = [loaded EXCEPT ![t] = 0]
  /\ UNCHANGED <<notCounter, perf_now, warmup_end_time, total_transactions,
                 post_warmup_transactions, recent_transactions, current_time,
                 snapshot, tps, call_times, recorded>>

increment_insert(t) ==
  \/ \E n \in 1..MaxBatch : IncCall(t, n)
  \/ IncLock(t)
  \/ IncLoad(t)
  \/ IncStore(t)

record_transaction(t) ==
  \/ RtCall(t)
  \/ RtCount(t)
  \/ RtRecent(t)

\* get_stats, by the monitor: the counters read under self.lock, and
\* get_sub_second_tps called for 'realtime_tps'
get_stats ==
  /\ ppc[MON] = "idle"
  /\ perf_lock = "free"
  /\ recent_transactions' = Evict(recent_transactions, perf_now - Scale)
  /\ snapshot' = [total_transactions |-> total_transactions,
                  post_warmup_transactions |-> post_warmup_transactions,
                  total_inserts |-> total_inserts,
                  realtime_tps |-> Len(recent_transactions')]
  /\ UNCHANGED <<notCounter, perf_now, warmup_end_time, perf_lock,
                 total_transactions, post_warmup_transactions, total_inserts,
                 ppc, current_time, count, loaded, tps, call_times, recorded,
                 issued>>

\* get_sub_second_tps: current_time = time.time()
TpsCall ==
  /\ ppc[MON] = "idle"
  /\ ppc' = [ppc EXCEPT ![MON] = "tps_read"]
  /\ current_time' = [current_time EXCEPT ![MON] = perf_now]
  /\ UNCHANGED <<notCounter, perf_now, warmup_end_time, perf_lock,
                 total_transactions, post_warmup_transactions, total_inserts,
                 recent_transactions, count, loaded, snapshot, tps,
                 call_times, recorded, issued>>

\* get_sub_second_tps: the block under self.recent_lock
TpsRead ==
  /\ ppc[MON] = "tps_read"
  /\ recent_transactions' =
       Evict(recent_transactions, current_time[MON] - Scale)
  /\ tps' = Len(recent_transactions')
  /\ ppc' = [ppc EXCEPT ![MON] = "idle"]
  /\ current_time' = [current_time EXCEPT ![MON] = 0]
  /\ UNCHANGED <<notCounter, perf_now, warmup_end_time, perf_lock,
                 total_transactions, post_warmup_transactions, total_inserts,
                 count, loaded, snapshot, call_times, recorded, issued>>

get_sub_second_tps ==
  \/ TpsCall
  \/ TpsRead

NextCounter ==
  \/ PerfTick
  \/ \E t \in Workers : record_transaction(t)
  \/ get_stats
  \/ get_sub_second_tps

\* the counters alone: the workers count rows and transactions, the monitor
\* reads
NextIncrement ==
  \/ \E t \in Workers : increment_insert(t)
  \/ \E t \in Workers : record_transaction(t)
  \/ get_stats

\* run_load_test: the counter is made, the warmup boundary set (or none),
\* and the workers and the monitor are started
InitCounter ==
  /\ NoPool
  /\ OtherInit
  /\ RateInit(1)
  /\ WorkerInit
  /\ LogInit
  /\ LatencyInit
  /\ SideInit
  /\ \E W \in {NoTime} \cup 1..MaxWarmup : CounterInit(W)

SpecCounter == InitCounter /\ [][NextCounter]_vars

SpecIncrement == InitCounter /\ [][NextIncrement]_vars

\* ---- PerformanceCounter.get_latency_stats ---------------------------------------
\* The buffer is kept as the number of samples of each value: get_latency_stats
\* sorts it before it reads it, so the order of arrival is of no account.
notLatency == <<poolVars, serverAux, workVars, logVars, counterVars, sideVars>>

\* the number of samples in b below v
RECURSIVE Below(_, _)
Below(b, v) == IF v <= 1 THEN 0 ELSE b[v - 1] + Below(b, v - 1)

\* len(self.latencies)
Samples(b) == Below(b, MaxLatency + 1)

\* sum(sorted_latencies)
RECURSIVE SumTo(_, _)
SumTo(b, v) == IF v < 1 THEN 0 ELSE v * b[v] + SumTo(b, v - 1)

\* sorted(self.latencies)[k], for 0 <= k < n
sorted_latencies(b, k) ==
  CHOOSE v \in 1..MaxLatency : Below(b, v) <= k /\ k < Below(b, v) + b[v]

\* a percentile index one rank lower
PercentileIndexBelow(n, percent) == Max(0, (n * percent) \div 100 - 1)

\* int(n * 0.50), int(n * 0.95), int(n * 0.99); the product in floating
\* point and the integer quotient agree for every n up to the buffer's 10000
PercentileIndex(n, percent) == (n * percent) \div 100

\* get_latency_stats(); avg is in 1/1000 ms, rounded down
get_latency_stats(b) ==
  LET n == Samples(b) IN
    IF n = 0
      THEN [avg |-> 0, p50 |-> 0, p95 |-> 0, p99 |-> 0, min |-> 0, max |-> 0,
            samples |-> 0]
      ELSE [avg |-> (1000 * SumTo(b, MaxLatency)) \div n,
            p50 |-> sorted_latencies(b, PercentileIndex(n, 50)),
            p95 |-> IF n > 20
                      THEN sorted_latencies(b, PercentileIndex(n, 95))
                      ELSE sorted_latencies(b, n - 1),
            p99 |-> IF n > 100
                      THEN sorted_latencies(b, PercentileIndex(n, 99))
                      ELSE sorted_latencies(b, n - 1),
            min |-> sorted_latencies(b, 0),
            max |-> sorted_latencies(b, n - 1),
            samples |-> n]

\* record_transaction(latency_ms): `if latency_ms > 0: self.latencies.append`;
\* the result of an earlier get_latency_stats has been used by then
RecordLatency(latency_ms) ==
  /\ Samples(latencies) < MaxSamples
  /\ latencies' = IF latency_ms > 0
                    THEN [latencies EXCEPT ![latency_ms] = @ + 1]
                    ELSE latencies
  /\ latency_stats' = NoStats
  /\ UNCHANGED notLatency

\* the monitor asks for the statistics
GetLatencyStats ==
  /\ latency_stats = NoStats
  /\ latency_stats' = get_latency_stats(latencies)
  /\ UNCHANGED <<notLatency, latencies>>

NextLatency ==
  \/ \E latency_ms \in 0..MaxLatency : RecordLatency(latency_ms)
  \/ GetLatencyStats

SpecLatency == InitErrorLog /\ [][NextLatency]_vars

\* ---- type correctness -------------------------------------------------------
TypeOK ==
  /\ pool \in Seq(Handles)
  /\ current_size \in Int
  /\ active_count \in Int
  /\ total_created \in Nat
  /\ active_connections \subseteq Handles
  /\ \A h \in Handles :
       pooled[h].state \in {"unborn", "live", "broken", "closed"}
  /\ conn \in [Threads -> Handles \cup {None}]
  /\ retry_count \in [Workers -> 0..max_retries]
  /\ held \in [Workers -> SUBSET Handles]

\* ---- what the callers own ---------------------------------------------------
\* acquire has chosen the handle it is about to return to caller t
Returning(t) ==
  /\ pc[t] \in {"acq_register", "acq_count", "acq_done"}
  /\ conn[t] # None

\* the handles caller t owns: those it holds and the one acquire is returning
Owned(t) == held[t] \cup (IF Returning(t) THEN {conn[t]} ELSE {})

\* how many handles the callers hold or are being handed, counted per caller
RECURSIVE OwnedCount(_)
OwnedCount(S) ==
  IF S = {} THEN 0
  ELSE LET t == CHOOSE x \in S : TRUE IN
         Cardinality(held[t]) + (IF Returning(t) THEN 1 ELSE 0)
           + OwnedCount(S \ {t})

\* no thread is inside a pool operation
Quiescent == \A t \in Threads : ~Busy(t)

\* ---- C1 ---------------------------------------------------------------------
\* C1: at every moment 0 <= active_count <= current_size <= max_size.
C1_CountersInRange ==
  /\ 0 <= active_count
  /\ active_count <= current_size
  /\ current_size <= max_size

\* the pool is full and every connection of it is held
C1_Witness ==
  /\ active_count = max_size
  /\ current_size = max_size
  /\ Cardinality(AllHeld) = max_size

\* ---- C2 ---------------------------------------------------------------------
\* C2: the callers never hold more than max_size handles at once, whatever
\* the interleaving; an acquire beyond that gets no handle.
C2_AtMostMaxSizeHeld == OwnedCount(Workers) <= max_size

\* max_size handles are held and one more acquire comes back empty-handed
C2_Witness ==
  /\ OwnedCount(Workers) = max_size
  /\ \E t \in Workers : pc[t] = "acq_done" /\ conn[t] = None

\* ---- C3 ---------------------------------------------------------------------
\* C3: a handle acquire returns belongs to that caller alone until it is
\* released or discarded: no other caller holds it or is handed it, the
\* same caller is not handed it twice, and it is not in the idle queue nor
\* in the hands of the health check.
C3_ExclusiveOwnership ==
  /\ \A t \in Workers : Returning(t) => conn[t] \notin held[t]
  /\ \A t1, t2 \in Workers : t1 # t2 => Owned(t1) \cap Owned(t2) = {}
  /\ \A t \in Workers : \A h \in Owned(t) :
       /\ ~InQueue(h)
       /\ conn[HC] # h
       /\ \A i \in 1..Len(valid_connections) : valid_connections[i] # h

\* two callers own a handle each while a third thread works on the pool
C3_Witness ==
  /\ held["w1"] # {}
  /\ Returning("w2")
  /\ conn["w2"] \in active_connections

\* ---- C4 ---------------------------------------------------------------------
\* C4: every handle the pool created is in exactly one place: idle in the
\* queue (once), in flight in the active map, or destroyed.  While an
\* operation is moving a handle it is in at most one of them; once no
\* operation is under way it is in exactly one.
C4_ExactlyOnePlace ==
  /\ \A i, j \in 1..Len(pool) : i # j => pool[i] # pool[j]
  /\ \A h \in Handles :
       /\ ~(InQueue(h) /\ h \in active_connections)
       /\ pooled[h].state = "closed" =>
            ~InQueue(h) /\ h \notin active_connections
       /\ pooled[h].state = "unborn" =>
            ~InQueue(h) /\ h \notin active_connections
       /\ Quiescent /\ Open(h) => InQueue(h) \/ h \in active_connections

\* at rest, with one handle idle, one in flight and one destroyed
C4_Witness ==
  /\ Quiescent
  /\ \E h \in Handles : InQueue(h)
  /\ \E h \in Handles : h \in active_connections
  /\ \E h \in Handles : pooled[h].state = "closed"

\* ---- C5 ---------------------------------------------------------------------
\* C5: acquire never returns a handle that was past max_lifetime_seconds
\* when acquire got hold of it, on any of its return paths: every such
\* handle is closed instead.
C5_NeverReturnsExpired ==
  \A t \in Workers :
    pc[t] = "acq_done" /\ conn[t] # None => ~vet[t].expired

\* ---- C6 ---------------------------------------------------------------------
\* C6: acquire never returns a handle that fails liveness validation: a
\* handle that was dead when acquire got hold of it is closed, not returned.
C6_NeverReturnsInvalid ==
  \A t \in Workers :
    pc[t] = "acq_done" /\ conn[t] # None => ~vet[t].broken

\* ---- C7 ---------------------------------------------------------------------
\* the health-check thread takes a step of its sweep
SweepStep == pc'[HC] # pc[HC]

InValid(h) ==
  \E i \in 1..Len(valid_connections) : valid_connections[i] = h

\* An idle handle the sweep finds past max_lifetime is closed on the spot and
\* is not kept for putting back; a closed handle is never in the queue nor
\* among the handles the sweep keeps.
C7_ExpiredNeverPutBack ==
  /\ [][pc[HC] = "hc_get" /\ SweepStep /\ pool # <<>>
         /\ is_connection_expired(Head(pool))
        => /\ pooled'[Head(pool)].state = "closed"
           /\ pc'[HC] = "hc_exp_close"
           /\ valid_connections' = valid_connections
           /\ pool' = Tail(pool)]_vars
  /\ [](\A h \in Handles :
          pooled[h].state = "closed" => ~InQueue(h) /\ ~InValid(h))

\* After closing an expired handle the sweep runs the creation routine; the
\* routine goes on to connect when the capacity allows, and the handle it
\* yields, a connection opened just then, is kept for putting back.
C7_ReplacementAttempted ==
  /\ [][pc[HC] = "hc_exp_close" /\ SweepStep
        => pc'[HC] = "cci_check" /\ ret_pc'[HC] = "hc_recycled"]_vars
  /\ [][pc[HC] = "cci_check" /\ ret_pc[HC] = "hc_recycled" /\ SweepStep
         /\ HasCapacity
        => pc'[HC] = "cci_connect"]_vars
  /\ [][pc[HC] = "cci_connect" /\ ret_pc[HC] = "hc_recycled" /\ SweepStep
         /\ conn'[HC] # None
        => /\ pooled[conn'[HC]].state = "unborn"
           /\ pooled'[conn'[HC]].state = "live"
           /\ pooled'[conn'[HC]].age = 0
           /\ pc'[HC] = "hc_recycled"]_vars
  /\ [][pc[HC] = "hc_recycled" /\ SweepStep /\ conn[HC] # None
        => valid_connections' = Append(valid_connections, conn[HC])]_vars

C8_ExhaustedAcquireFails ==
  /\ [](\A t \in Workers : retry_count[t] <= max_retries)
  /\ [][\A t \in Workers :
          pc[t] = "acq_empty" /\ pc'[t] # "acq_empty"
            => retry_count'[t] = retry_count[t] + 1]_vars
  /\ \A t \in Workers :
       (pc[t] # "rest") ~> (pc[t] = "acq_done" /\ conn[t] = None)

\* an acquire has used all its retries on the exhausted pool and returns None
C8_Witness ==
  \E t \in Workers :
    /\ pc[t] = "acq_done"
    /\ conn[t] = None
    /\ retry_count[t] = max_retries
    /\ pool = <<>>
    /\ current_size = max_size

Discarding(t) == pc[t] \in {"dis_count", "dis_close"}

\* C10: discard of a handle in the in-flight map removes it from the map,
\* lowers active_count by exactly 1, closes the handle and lowers
\* current_size by exactly 1; from then on the handle is never in the idle
\* queue, never owned by a caller and stays closed.
C10_DiscardDestroys ==
  /\ [][\A t \in Workers :
          pc[t] = "rest" /\ pc'[t] = "dis_count"
            => /\ conn'[t] \in active_connections
               /\ active_connections' = active_connections \ {conn'[t]}]_vars
  /\ [][\A t \in Workers :
          pc[t] = "dis_count" /\ pc'[t] # "dis_count"
            => active_count' = active_count - 1]_vars
  /\ [][\A t \in Workers :
          pc[t] = "dis_close" /\ pc'[t] # "dis_close"
            => /\ current_size' = current_size - 1
               /\ pooled'[conn[t]].state = "closed"]_vars
  /\ [](\A t \in Workers : Discarding(t) =>
          /\ ~InQueue(conn[t])
          /\ conn[t] \notin active_connections
          /\ \A u \in Workers : conn[t] \notin Owned(u))
  /\ [](\A h \in Handles : pooled[h].state = "closed" =>
          /\ ~InQueue(h)
          /\ h \notin active_connections
          /\ \A u \in Workers : h \notin Owned(u))
  /\ [][\A h \in Handles :
          pooled[h].state = "closed" => pooled'[h].state = "closed"]_vars

\* a discard has closed its handle: the counters are down to the handles left
C10_Witness ==
  \E t \in Workers :
    /\ pc[t] = "dis_close"
    /\ conn[t] \notin active_connections
    /\ held[t] # {}
    /\ active_count = 1

\* ---- C11 --------------------------------------------------------------------
\* caller t is inside a discard or release whose pop removed no entry of the
\* in-flight map (the connection had been given back and closed before)
Stray(t) ==
  /\ pc[t] \in {"dis_count", "rel_count"}
  /\ pooled[conn[t]].state = "closed"

\* C11: a discard or release of a handle that is not in the in-flight map
\* leaves active_count as it is.
C11_StrayCallKeepsActiveCount ==
  [][\A t \in Workers :
       Stray(t) /\ pc'[t] # pc[t] => active_count' = active_count]_vars

\* C12: when close_all has returned, every handle is closed, the idle queue and
\* the in-flight map are empty, and current_size = 0 and active_count = 0.
C12_CloseAllClearsPool ==
  main = "closed" =>
    /\ \A h \in Handles : ~Open(h)
    /\ pool = <<>>
    /\ active_connections = {}
    /\ current_size = 0
    /\ active_count = 0

\* the part of it that the code does keep: connections, queue and map
CloseAllClosesConnections ==
  main = "closed" =>
    /\ \A h \in Handles : ~Open(h)
    /\ pool = <<>>
    /\ active_connections = {}
\* C13: get_pool_stats always returns, also when another thread keeps the pool
\* lock for ever; it changes neither current_size, active_count, the idle queue
\* nor the in-flight map; and it gives the lock back exactly when it took it:
\* outside the locked read the monitor does not hold the lock, and its steps
\* never free a lock that another thread holds.
C13_StatsReturnsAndFreesLock ==
  /\ (monitor = "st_wait") ~> (monitor = "rest")
  /\ [][monitor' # monitor =>
          /\ UNCHANGED <<pool, current_size, active_count,
                         active_connections>>
          /\ lock # MON /\ lock # "free" => lock' = lock]_vars
  /\ [](lock = MON <=> monitor = "st_locked")

\* get_pool_stats has returned the values it read without the lock while a
\* worker still holds it
C13_Witness ==
  /\ monitor = "rest"
  /\ stats.status = "locked"
  /\ lock \in Workers
\* C14: an idle-timeout eviction by the health sweep never takes current_size
\* below min_size, whatever the workers do in between.
C14_EvictionKeepsMinSize ==
  [][pc[HC] = "hc_idle_close" /\ SweepStep => current_size' >= min_size]_vars
\* handle h sits in the idle queue, idle for longer than idle_timeout_seconds
Stale(h) ==
  /\ InQueue(h)
  /\ get_idle_seconds(h) > idle_timeout_seconds

\* handle h has left the idle queue for good: it is neither in the queue nor
\* with the sweep that took it out and may put it back
Gone(h) ==
  /\ ~InQueue(h)
  /\ conn[HC] # h
  /\ ~InValid(h)

\* C15: with the health check scheduled fairly, a handle that is in the idle
\* queue with idle time above idle_timeout_seconds while current_size >
\* min_size does not stay there: it is closed by a sweep or taken by an
\* acquire, unless current_size falls to min_size first.
C15_StaleHandleLeavesQueue ==
  \A h \in Handles :
    (Stale(h) /\ current_size > min_size)
      ~> (Gone(h) \/ current_size <= min_size)

\* the sweep has closed a handle for its idle time while the caller is at rest
C15_Witness ==
  /\ pc[HC] = "hc_idle_close"
  /\ pc["w1"] = "rest"
  /\ pooled[conn[HC]].state = "closed"
\* the handles that are in flight and held for longer than the threshold
OverThreshold ==
  {h \in active_connections :
     pooled[h].acquired
       /\ acquired_seconds[h] > leak_detection_threshold_seconds}

LeakPass == pc[HC] = "hc_sleep" /\ pc'[HC] = "hc_leak"
LeakStep == LeakPass \/ pc[HC] = "hc_leak"

\* C16: a health-check cycle notes exactly the handles that are in flight and
\* held for longer than leak_detection_threshold_seconds, and raises
\* total_leak_warnings by one for each of them and by nothing else: k for k
\* such handles, none for a handle held for less or given back.
C16_OneWarningPerLeak ==
  /\ [][LeakPass => /\ leaked_connections' = OverThreshold
                     /\ total_leaked_warnings' = total_leaked_warnings]_vars
  /\ [][total_leaked_warnings' # total_leaked_warnings =>
          /\ pc[HC] = "hc_leak"
          /\ total_leaked_warnings' = total_leaked_warnings + 1
          /\ Cardinality(leaked_connections')
               = Cardinality(leaked_connections) - 1]_vars
  /\ [][leaked_connections' # leaked_connections =>
          \/ LeakPass
          \/ total_leaked_warnings' = total_leaked_warnings + 1]_vars
  /\ [][pc[HC] = "hc_leak" /\ pc'[HC] # "hc_leak" =>
          leaked_connections = {}]_vars

\* a cycle has found both handles held for too long, and warned of both
C16_Witness ==
  /\ pc[HC] = "hc_leak"
  /\ leaked_connections = {}
  /\ total_leaked_warnings = 2
  /\ Cardinality(OverThreshold) = 2

\* C17: a pass of _detect_connection_leaks leaves the in-flight map, the idle
\* queue, active_count, current_size and every handle (open or closed,
\* acquired or not, since when and by whom) as they are.
C17_LeakDetectionOnlyReports ==
  [][LeakStep /\ (pc'[HC] # pc[HC]
                    \/ leaked_connections' # leaked_connections
                    \/ total_leaked_warnings' # total_leaked_warnings) =>
       UNCHANGED <<active_connections, pool, active_count, current_size,
                   total_created, pooled, acquired_seconds, held>>]_vars

\* a warning has been given for a handle that is still held and open
C17_Witness ==
  /\ pc[HC] = "hc_leak"
  /\ total_leaked_warnings > 0
  /\ \E h \in OverThreshold : Open(h) /\ h \in AllHeld
\* _create_connection_internal returns None after a connect attempt that failed
FailedCreate(t) ==
  /\ pc[t] = "cci_connect"
  /\ pc'[t] # "cci_connect"
  /\ conn'[t] = None

\* C18: with capacity available, _create_connection_internal gives up only
\* after max_creation_retries (3) failed connect attempts: a call that returns
\* None after a failed connect is in its last round, attempt = 2.
C18_ThreeAttemptsBeforeFailure ==
  [][\A t \in Threads :
       FailedCreate(t) => attempt[t] + 1 = max_creation_retries]_vars
RECURSIVE GrantedIn(_, _)
\* how many acquire calls returned True at the instants a..b
GrantedIn(a, b) == IF a > b THEN 0 ELSE granted[a] + GrantedIn(a + 1, b)

\* C19: the bucket never holds less than nothing nor more than the burst
\* capacity of 2 x target_tps tokens.
C19_TokensWithinBurst ==
  /\ 0 <= tokens
  /\ tokens <= 2 * target_tps * Scale
  /\ max_tokens = 2 * target_tps * Scale

\* the ceiling has cut a refill: after MaxClock / Scale seconds without a
\* taker the first caller finds the bucket at its burst capacity, no fuller
C19_Witness ==
  /\ clock = MaxClock
  /\ last_refill = clock
  /\ GrantedIn(0, clock) = 1
  /\ tokens = max_tokens - Scale
  /\ target_tps * Scale + clock * target_tps > max_tokens

\* C20: in any stretch of T seconds, from the making of the limiter or from
\* any later instant, at most target_tps x T + 2 x target_tps acquire calls
\* return True (counted here in 1/Scale seconds and tokens).
C20_GrantsBounded ==
  \A a \in 0..MaxClock : \A b \in a..MaxClock :
    GrantedIn(a, b) * Scale <= target_tps * (b - a) + 2 * target_tps * Scale

\* a stretch in which every token the bound allows has been granted
C20_Witness ==
  \E a \in 1..MaxClock : \E b \in (a + 1)..MaxClock :
    /\ GrantedIn(a, b) * Scale = target_tps * (b - a) + 2 * target_tps * Scale
    /\ b <= clock

\* run has returned and the worker holds nothing: no handle of its own is left
\* in the in-flight map
Terminated(t) ==
  /\ wpc[t] = "w_done"
  /\ held[t] = {}
  /\ connection[t] \notin active_connections

\* C21: once the shutdown flag is set, every running worker eventually leaves
\* its loop and terminates holding no handle: the handle it held is released
\* and is no longer in the in-flight map.
C21_ShutdownStopsWorkers ==
  shutdown_requested ~> (\A t \in Runners : Terminated(t))

\* a worker that held a handle when the flag was set has ended and released it
C21_Witness ==
  /\ shutdown_requested
  /\ ~time_up
  /\ Terminated("w1")
  /\ connection["w1"] # None
  /\ pooled[connection["w1"]].state = "live"

\* the step in which an operation of worker t returns False
OperationFails(t) ==
  /\ wpc[t] = "w_op"
  /\ wpc'[t] = "w_top"
  /\ \/ total_errors' # total_errors
     \/ verification_failures' # verification_failures

\* the step in which an operation of worker t returns True
OperationSucceeds(t) ==
  /\ wpc[t] = "w_op"
  /\ wpc'[t] = "w_top"
  /\ total_errors' = total_errors
  /\ verification_failures' = verification_failures

\* the step hands worker t's connection to pool.discard and forgets it
DiscardsConnection(t) ==
  /\ connection[t] \notin active_connections'
  /\ connection[t] \notin held'[t]
  /\ pooled'[connection[t]].state = "closed"
  /\ connection'[t] = None

\* the step leaves worker t's connection as it is, in the worker's hands
KeepsConnection(t) ==
  /\ connection'[t] = connection[t]
  /\ active_connections' = active_connections
  /\ held' = held
  /\ pooled' = pooled
  /\ connection_recreates' = connection_recreates

\* the operation of worker t runs on a handle the worker holds, which the
\* pool has in flight and has not closed
OnHeldHandle(t) ==
  (wpc[t] = "w_op" /\ connection[t] # None) =>
     /\ connection[t] \in held[t]
     /\ connection[t] \in active_connections
     /\ pooled[connection[t]].state # "closed"

\* C22: the second of two consecutive operation failures hands the worker's
\* connection to pool.discard and adds one to the connection_recreates
\* counter; the operation after it runs on a handle acquired since, never on
\* the discarded one; a single failure keeps the connection, and so does the
\* success that follows it.
C22_SecondFailureDiscards ==
  /\ [][\A t \in Runners :
          /\ (OperationFails(t) /\ consecutive_errors[t] >= 1) =>
                /\ connection_recreates' = connection_recreates + 1
                /\ connection'[t] = None
                /\ connection[t] # None => DiscardsConnection(t)
          /\ (OperationFails(t) /\ consecutive_errors[t] = 0) =>
                KeepsConnection(t)
          /\ OperationSucceeds(t) =>
                (KeepsConnection(t) /\ consecutive_errors'[t] = 0)]_vars
  /\ [](\A t \in Runners : OnHeldHandle(t))

\* two operations in a row have failed on a live connection, which is now
\* closed, and the worker has none
C22_Witness ==
  /\ wpc["w1"] = "w_top"
  /\ consecutive_errors["w1"] = 2
  /\ connection["w1"] = None
  /\ total_errors + verification_failures = 2
  /\ connection_recreates = 1
  /\ \E h \in Handles : pooled[h].state = "closed"
  /\ \A h \in Handles : pooled[h].state # "broken"

\* the steps in which the worker counts a success or a validated acquisition
BackoffResets(t) ==
  \/ OperationSucceeds(t)
  \/ /\ wpc[t] = "gv_check"
     /\ wpc'[t] = gv_ret[t]
     /\ gv_conn'[t] # None
  \/ /\ wpc[t] = "w_got"
     /\ wpc'[t] = "w_data"

\* C23: a worker's backoff is always between 100 and 5000 ms, a step at most
\* doubles it, and it is 100 right after every successful operation and
\* every acquisition of a validated connection.
C23_BackoffBounded ==
  /\ [](\A t \in Runners :
          current_backoff_ms[t] >= 100 /\ current_backoff_ms[t] <= 5000)
  /\ [][\A t \in Runners :
          /\ current_backoff_ms'[t] <= 2 * current_backoff_ms[t]
          /\ BackoffResets(t) => current_backoff_ms'[t] = 100]_vars

\* the backoff has reached its ceiling, which is not a power-of-two multiple
\* of 100
C23_Witness ==
  /\ current_backoff_ms["w1"] = MAX_BACKOFF_MS
  /\ wpc["w1"] = "gv_check"
  /\ is_connection_valid(gv_conn["w1"])

\* the step in which execute_full of worker t fails its verification
VerificationFails(t) ==
  /\ wpc[t] = "w_op"
  /\ verification_failures' = verification_failures + 1

\* a verification failure is counted as one, and not as an error
VerificationCountedApart ==
  [][\A t \in Runners : VerificationFails(t) => total_errors' = total_errors]_vars

\* C24: a verification failure in full mode adds one to the
\* verification-failure counter and nothing to the error counter, and
\* verification failures alone, however many in a row, never cause the
\* worker's connection to be discarded: as long as nothing has raised
\* (total_errors is 0) a verification failure keeps the connection.
C24_VerificationNeverDiscards ==
  [][\A t \in Runners :
       VerificationFails(t) =>
         /\ total_errors' = total_errors
         /\ total_errors = 0 => KeepsConnection(t)]_vars

\* the worker is out of its loop
LoopEnded(t) == wpc[t] \in {"w_exit", "w_done"}

\* C26: the loop of run ends only because the end time is reached or the
\* shutdown flag is set; no failure, of whatever kind, makes run end early or
\* lets an exception out of it.
C26_LoopEndsOnlyOnTimeOrShutdown ==
  /\ [](\A t \in Runners : LoopEnded(t) => (time_up \/ shutdown_requested))
  /\ [][\A t \in Runners :
          (~LoopEnded(t) /\ LoopEnded(t)') =>
             (wpc[t] = "w_top" /\ wpc'[t] = "w_exit")]_vars

\* a worker whose operations have raised and failed verification, and whose
\* queries have raised, has ended, at the end time, with no shutdown
C26_Witness ==
  /\ wpc["w1"] = "w_done"
  /\ time_up
  /\ ~shutdown_requested
  /\ total_errors > MaxCount
  /\ verification_failures = MaxCount
  /\ connection_recreates >= 2

\* the call of log_error that emitted worker t's last warning, 0 if none
LastWarnedCall(t) ==
  IF warned_at[t] = <<>> THEN 0 ELSE warned_at[t][Len(warned_at[t])].call

\* the failures of all the workers in S
RECURSIVE TotalFailures(_)
TotalFailures(S) ==
  IF S = {} THEN 0
  ELSE LET t == CHOOSE x \in S : TRUE IN failures[t] + TotalFailures(S \ {t})

\* C25: every failure raised by the adapter adds exactly one to the error
\* counter, whether its message is logged or suppressed; the warnings that
\* log_error emits for a worker are more than ERROR_LOG_INTERVAL_MS apart,
\* and every other failure since the last warning is counted as suppressed
\* and reported by the next warning.
C25_ErrorsCountedLogRateLimited ==
  /\ total_errors = TotalFailures(Runners)
  /\ \A t \in Runners :
       /\ \A i, j \in 1..Len(warned_at[t]) :
            i < j =>
              warned_at[t][j].at - warned_at[t][i].at > ERROR_LOG_INTERVAL_MS
       /\ suppressed_error_count[t] = failures[t] - LastWarnedCall(t)
       /\ \A j \in 2..Len(warned_at[t]) :
            warned_at[t][j].suppressed =
              warned_at[t][j].call - warned_at[t][j - 1].call - 1

\* two warnings, with a failure suppressed between them and one after
C25_Witness ==
  /\ Len(warned_at["w1"]) = 2
  /\ warned_at["w1"][2].suppressed = 1
  /\ suppressed_error_count["w1"] = 1
  /\ total_errors = 4

\* the calls of record_transaction that have read the time and not yet
\* counted, all of them or those made at or after the warmup boundary
Uncounted(post) ==
  Cardinality({t \in Workers :
                 /\ ppc[t] = "rt_count"
                 /\ post => current_time[t] >= warmup_end_time})

\* C27: with a warmup boundary configured, post_warmup_transactions is the
\* number of record_transaction calls made at a time at or after the
\* boundary, total_transactions counts every call, and
\* post_warmup_transactions <= total_transactions in every state, and in
\* everything get_stats returns.
C27_PostWarmupCounted ==
  /\ total_transactions + Uncounted(FALSE) = CountFrom(call_times, 0, 0)
  /\ warmup_end_time # NoTime =>
       post_warmup_transactions + Uncounted(TRUE)
         = CountFrom(call_times, warmup_end_time, 0)
  /\ post_warmup_transactions <= total_transactions
  /\ snapshot.post_warmup_transactions <= snapshot.total_transactions

\* two transactions recorded before the boundary and one at the boundary
C27_Witness ==
  /\ warmup_end_time = 1
  /\ call_times[0] = 2
  /\ call_times[1] = 1
  /\ total_transactions = 3
  /\ post_warmup_transactions = 1

\* C28: the counters lose no update under concurrent writers: with the
\* workers' increments and the monitor's reads interleaved in any way, a
\* counter has grown by exactly the sum of the increments that have
\* returned, and no counter, and nothing the monitor reads, ever decreases.
C28_NoLostUpdate ==
  /\ [](total_inserts = issued)
  /\ [](total_transactions + Uncounted(FALSE) = CountFrom(call_times, 0, 0))
  /\ [][/\ total_inserts' >= total_inserts
         /\ total_transactions' >= total_transactions
         /\ post_warmup_transactions' >= post_warmup_transactions
         /\ snapshot'.total_inserts >= snapshot.total_inserts
         /\ snapshot'.total_transactions >= snapshot.total_transactions]_vars

\* one worker is inside its increment, the other waits for the lock, and the
\* monitor has read the counter between two increments
C28_Witness ==
  /\ ppc["w1"] = "inc_store"
  /\ ppc["w2"] = "inc_lock"
  /\ perf_lock = "w1"
  /\ total_inserts = 1
  /\ snapshot.total_inserts = 1

\* the step in which get_sub_second_tps returns
TpsReturns ==
  /\ ppc[MON] = "tps_read"
  /\ ppc'[MON] = "idle"

\* after the read no timestamp older than one second is left in the queue
NothingStaleAfterRead ==
  [][TpsReturns =>
       \A i \in 1..Len(recent_transactions') :
          recent_transactions'[i] >= current_time[MON] - Scale]_vars

\* C29: get_sub_second_tps returns exactly the number of recorded
\* transactions whose timestamp is at or after now - 1 s, and after the read
\* no timestamp older than that is left in the queue, however the calls of
\* record_transaction and the reads interleave.
C29_SubSecondTpsExact ==
  [][TpsReturns =>
       /\ \A i \in 1..Len(recent_transactions') :
            recent_transactions'[i] >= current_time[MON] - Scale
       /\ tps' = CountFrom(recorded, current_time[MON] - Scale, 0)]_vars

\* v is the sample at index k of the buffer b in ascending order
IsSortedSample(b, k, v) ==
  /\ v \in 1..MaxLatency
  /\ b[v] > 0
  /\ Below(b, v) <= k
  /\ k < Below(b, v + 1)

\* the largest sample in b
MaxSample(b) == CHOOSE v \in 1..MaxLatency :
                  b[v] > 0 /\ \A u \in 1..MaxLatency : b[u] > 0 => u <= v

\* C30: get_latency_stats over a buffer of n >= 1 samples returns as p95 the
\* largest sample when n <= 20 and as p99 the largest sample when n <= 100;
\* otherwise p95 and p99 are the samples at index floor(0.95 n) and
\* floor(0.99 n) of the sorted buffer, and these indexes are below n; over
\* an empty buffer every statistic is 0.
C30_LatencyPercentiles ==
  [][latency_stats' # NoStats =>
       LET n == Samples(latencies)
           r == latency_stats'
       IN  /\ r.samples = n
           /\ n = 0 =>
                /\ r.avg = 0 /\ r.p50 = 0 /\ r.p95 = 0
                /\ r.p99 = 0 /\ r.min = 0 /\ r.max = 0
           /\ (n >= 1 /\ n <= 20) => r.p95 = MaxSample(latencies)
           /\ (n >= 1 /\ n <= 100) => r.p99 = MaxSample(latencies)
           /\ n > 20 =>
                /\ (95 * n) \div 100 < n
                /\ IsSortedSample(latencies, (95 * n) \div 100, r.p95)
           /\ n > 100 =>
                /\ (99 * n) \div 100 < n
                /\ IsSortedSample(latencies, (99 * n) \div 100, r.p99)]_vars

\* statistics over 101 samples in which p95, p99 and the maximum differ
C30_Witness ==
  /\ latency_stats.samples = 101
  /\ latency_stats.p95 < latency_stats.p99
  /\ latency_stats.p99 < latency_stats.max

\* C34: whenever no acquire, release, discard, creation or health sweep is
\* in progress, and the callers give back only handles they hold,
\* active_count is the number of entries of the in-flight map and
\* current_size is the number of handles in the idle queue plus the number
\* in flight.
C34_CountersMatchSets ==
  Quiescent =>
    /\ active_count = Cardinality(active_connections)
    /\ current_size = Len(pool) + Cardinality(active_connections)

\* at rest, with one handle idle and one in flight
C34_Witness ==
  /\ Quiescent
  /\ Len(pool) = 1
  /\ Cardinality(active_connections) = 1
  /\ current_size = 2
  /\ total_created > 2

\* ---- acquire and the idle handles ------------------------------------------
\* the handles the health sweep has taken out of the idle queue: the one it
\* is examining and the ones it keeps in valid_connections to put back
InSweep(h) ==
  \/ \E i \in 1..Len(valid_connections) : valid_connections[i] = h
  \/ pc[HC] = "hc_idle" /\ conn[HC] = h

\* the idle handles of the pool that an acquire could hand out
UsableIdle ==
  {h \in Handles : /\ InQueue(h) \/ InSweep(h)
                   /\ validate_connection(h)
                   /\ ~is_connection_expired(h)}

\* acquire's empty-queue path opens a connection: current_size grows
AcquireGrows(t) ==
  /\ pc[t] = "cci_check"
  /\ ret_pc[t] = "acq_created"
  /\ current_size' > current_size

\* the same, about the handles in the sweep's hands only
SweepHoldsNoneWhenGrown ==
  [][\A t \in Workers :
       AcquireGrows(t) => ~\E h \in UsableIdle : InSweep(h)]_vars

\* C36: acquire opens a new connection only when the pool has no idle handle:
\* while a valid, non-expired idle handle belongs to the pool, in the idle
\* queue or in the hands of a running health sweep, an acquire does not grow
\* current_size.
C36_CreatesOnlyWithoutIdle ==
  [][\A t \in Workers : AcquireGrows(t) => UsableIdle = {}]_vars

\* ---- the min_size top-up of the sweep --------------------------------------
\* the sweep ends (the thread goes back to sleep) otherwise than by a failed
\* creation of the top-up
SweepEndsCreated ==
  /\ pc[HC] \in {"hc_topup", "hc_topped"}
  /\ pc'[HC] = "hc_sleep"
  /\ ~(pc[HC] = "hc_topped" /\ conn[HC] = None)

\* the top-up's _create_connection_internal takes a slot
TopUpGrows ==
  /\ pc[HC] = "cci_check"
  /\ ret_pc[HC] = "hc_topped"
  /\ current_size' > current_size

\* the sweep ends with at least min_size handles
SweepEndsAtMinSize == [][SweepEndsCreated => current_size' >= min_size]_vars

\* the top-up stops at min_size
TopUpStopsAtMinSize == [][TopUpGrows => current_size' <= min_size]_vars

\* the top-up stays within max_size
TopUpWithinMaxSize == [][TopUpGrows => current_size' <= max_size]_vars

\* C38: a sweep whose creations succeed ends with current_size >= min_size,
\* and its top-up step never takes current_size above min_size nor above
\* max_size.
C38_TopUpToMinSize ==
  [][/\ SweepEndsCreated => current_size' >= min_size
     /\ TopUpGrows => current_size' <= min_size
     /\ TopUpGrows => current_size' <= max_size]_vars

\* ---- acquire's retry budget -------------------------------------------------
\* acquire goes round its loop again after destroying an idle handle that
\* failed validation
RetriesAfterInvalid(t) ==
  /\ pc[t] = "acq_inv_close"
  /\ pc'[t] # "acq_inv_close"

\* C39: within one acquire call every failed attempt, a handle that fails
\* validation included, uses up one unit of the retry budget of 3 and is
\* followed by a backoff that doubles up to 5000 ms, so at most 3 invalid
\* handles are destroyed and retried before the final bounded wait.
C39_InvalidHandleUsesBudget ==
  [][\A t \in Workers :
       RetriesAfterInvalid(t) =>
         /\ retry_count'[t] = retry_count[t] + 1
         /\ backoff_ms'[t] = NextBackoff(backoff_ms[t])]_vars

\* ---- the accounting of a failed creation -----------------------------------
\* threads between the optimistic increment and the outcome of the connect
PendingCreates == {t \in Threads : pc[t] = "cci_connect"}

\* threads inside _close_pooled_connection, between connection.close() and
\* the decrement of current_size
PendingCloses ==
  {t \in Threads :
     pc[t] \in {"acq_exp_close", "acq_inv_close", "rel_exp_close",
                "rel_inv_close", "hc_exp_close", "hc_idle_close",
                "hc_ka_close", "hc_inv_close"}}

\* _create_connection_internal returns None
CreateReturnsNone(t) ==
  /\ pc[t] \in {"cci_check", "cci_connect"}
  /\ pc'[t] = ret_pc[t]
  /\ conn'[t] = None

\* C40: a failed creation leaves the accounting as it was before the call:
\* current_size counts the open connections, the creations under way and the
\* closes under way, and nothing else, total_created counts the connections
\* opened, and the call that returns None has added nothing to the idle queue
\* and goes back to its caller.
C40_FailedCreateLeavesAccounting ==
  /\ [](/\ current_size = Cardinality({h \in Handles : Open(h)})
                          + Cardinality(PendingCreates)
                          + Cardinality(PendingCloses)
        /\ total_created = Cardinality(Handles \ Unborn))
  /\ [][\A t \in Threads :
          CreateReturnsNone(t) =>
            /\ pool' = pool
            /\ total_created' = total_created
            /\ current_size' = current_size - Cardinality(PendingCreates \cap {t})
            /\ pc'[t] \in {"acq_created", "acq_recreated", "rel_recreated",
                           "hc_recycled", "hc_replaced", "hc_topped"}]_vars

C40_Witness ==
  /\ pc["w1"] = "acq_created"
  /\ conn["w1"] = None
  /\ current_size = 1
  /\ total_created = 2
  /\ Len(pool) = 0
  /\ Cardinality({h \in Handles : Open(h)}) = 1

\* ---- close_all and a health check that is not asleep ------------------------
\* the places where the health-check thread can stay for longer than the
\* five seconds of the join: asleep for its interval (30 s), in isValid
\* (validation_timeout, 5 s by default, one wait for each idle handle) and in
\* jaydebeapi.connect
HealthCheckWaits == pc[HC] \in {"hc_sleep", "hc_idle", "cci_connect"}

\* close_all: `_health_check_running = False`, then
\* `_health_check_thread.join(timeout=5)`.  The join returns when the thread
\* has ended or after five seconds; close_all then goes on while the thread
\* is where it was.
CloseAllJoin ==
  /\ main = "running"
  /\ \A t \in Workers : pc[t] = "rest"
  /\ HealthCheckWaits
  /\ main' = "ca_drain"
  /\ UNCHANGED <<poolVars, attempt, clientVars, statVars, leakVars, rateVars>>

\* `while self._health_check_running:` and, after the sleep,
\* `if not self._health_check_running: break`: a sweep starts only while the
\* flag is set, that is before close_all has begun
SweepStartRunning ==
  /\ main = "running"
  /\ SweepStart

\* the health-check thread: its loop, the sweep and the creations of the sweep
HealthCheck ==
  \/ SweepStartRunning
  \/ SweepGet
  \/ SweepEmpty
  \/ SweepExpiredClose
  \/ SweepAppendNew
  \/ SweepExamine
  \/ SweepIdleClose
  \/ SweepKeepaliveClose
  \/ SweepInvalidClose
  \/ SweepPutBack
  \/ SweepPutBackDone
  \/ SweepTopUp
  \/ SweepToppedUp
  \/ Create(HC)

\* The workers have stopped and have given back what they held: up to
\* max_size handles are idle in the queue.
InitStop ==
  \E k \in 0..max_size :
    /\ pool = [i \in 1..k |-> i]
    /\ current_size = k
    /\ active_count = 0
    /\ total_created = k
    /\ active_connections = {}
    /\ pooled = [h \in Handles |->
                   NoConnection(IF h <= k THEN "live" ELSE "unborn")]
    /\ pc = [t \in Threads |-> IF t = HC THEN "hc_sleep" ELSE "rest"]
    /\ conn = [t \in Threads |-> None]
    /\ ret_pc = [t \in Threads |-> "none"]
    /\ retry_count = [t \in Workers |-> 0]
    /\ backoff_ms = [t \in Workers |-> 100]
    /\ vet = [t \in Workers |-> NotVetted]
    /\ held = [t \in Workers |-> {}]
    /\ valid_connections = <<>>
    /\ AuxInit

\* The health check goes on with its sweeps until the main thread calls
\* close_all, at any moment.
NextStop ==
  \/ Tick
  \/ \E h \in Handles : Break(h)
  \/ HealthCheck
  \/ CloseAllJoin
  \/ CloseAllGet
  \/ CloseAllCount
  \/ CloseAllActive

SpecStop == InitStop /\ [][NextStop]_vars

\* the step is one of the health-check thread
HealthCheckStep == pc'[HC] # pc[HC] \/ valid_connections' # valid_connections

\* C37: once close_all has returned, the health-check thread creates no
\* connection, puts no handle into the idle queue and does not change
\* current_size, whether it was asleep or inside a sweep when close_all was
\* called; so no open handle is in the idle queue after close_all.
C37_CloseAllStopsHealthCheck ==
  /\ [][main = "closed" /\ HealthCheckStep =>
          /\ pool' = pool
          /\ current_size' = current_size
          /\ total_created' = total_created]_vars
  /\ [](main = "closed" => \A h \in Handles : InQueue(h) => ~Open(h))

\* the parts of it one by one
NoOpenIdleAfterClose ==
  main = "closed" => \A h \in Handles : InQueue(h) => ~Open(h)

NoCreateAfterClose ==
  [][main = "closed" => total_created' = total_created]_vars

\* ---- MultiDBLoadTester.run_load_test: the end of the test -------------------
\* `with ThreadPoolExecutor(...) as executor:` ends with
\* executor.shutdown(wait=True), after `for future in as_completed(futures)`:
\* the main thread goes on when every submitted worker.run has returned
WorkersJoined == \A t \in Runners : wpc[t] = "w_done"

\* a close_pool that does not wait for the workers
ClosePoolEarly ==
  /\ CloseAllJoin

\* monitor.stop(), the final statistics, then self.db_adapter.close_pool(),
\* which calls pool.close_all()
ClosePool ==
  /\ WorkersJoined
  /\ CloseAllJoin

\* The workers run until the end time or a shutdown request; the main thread
\* waits for them and closes the pool.
NextOrchestrator ==
  \/ NextWorker
  \/ ClosePool
  \/ CloseAllGet
  \/ CloseAllCount
  \/ CloseAllActive

SpecOrchestrator == Init /\ [][NextOrchestrator]_vars

\* close_all has been called
CloseAllCalled == main # "running"

\* C33: close_all is called only after every started worker has terminated:
\* in no reachable state is close_all running or finished while a worker is
\* still in its loop or still holds a handle.
C33_CloseAllAfterWorkers ==
  CloseAllCalled => \A t \in Runners : Terminated(t)

\* the pool is closed after a worker that used a handle has ended
C33_Witness ==
  /\ main = "closed"
  /\ Terminated("w1")
  /\ connection["w1"] # None
  /\ pool = <<>>

\* ---- the worker's handle ------------------------------------------------------
\* the handles the worker's variables refer to: `connection` of run and `conn`
\* of _get_valid_connection
Referred(t) == {connection[t], gv_conn[t]} \ {None}

\* the step hands a handle back to the pool (release or discard): the pool
\* closes a connection or counts one handle less in use
HandsBack == active_count' < active_count \/ current_size' < current_size

\* the places of run where `connection` is handed back if it is set: the
\* validity test of the loop, the failure and except branches, the end
MayHandBack(t) ==
  wpc[t] \in {"w_top", "w_rate", "w_body", "w_data", "w_op", "w_except",
              "w_exit"}

\* C35: a worker holds at most one handle at any time, and every handle it
\* obtains is handed back exactly once, by release or by discard: it is not
\* lost while held, it is not referred to by `connection` once handed back
\* (so it is not handed back again), a hand-back is of the one handle held
\* and removes it, and nothing is held when run has returned.
C35_OneHandleHandedBackOnce ==
  /\ [](\A t \in Runners :
          /\ Cardinality(held[t]) <= 1
          /\ held[t] \subseteq Referred(t)
          /\ MayHandBack(t) => {connection[t]} \ {None} \subseteq held[t]
          /\ wpc[t] = "w_done" => held[t] = {})
  /\ [][\A t \in Runners :
          HandsBack => \E h \in held[t] : held'[t] = held[t] \ {h}]_vars

\* a worker that got handles through each of its paths, discarded some and
\* released the last, has ended
C35_Witness ==
  /\ wpc["w1"] = "w_done"
  /\ held["w1"] = {}
  /\ connection["w1"] # None
  /\ connection_recreates >= 2
  /\ total_errors >= 1
  /\ pool # <<>>

\* ---- JdbcConnectionPool (multi_db_loader_grok.py) ---------------------------
\* A connection is "ok", "bad" (open, isValid fails) or "closed"; "none" is
\* None.  The lock is a threading.Lock: a thread that asks for it while it
\* holds it waits for ever.
JdbcThreads == Workers \cup {BOOT}

\* __init__: `for _ in range(config.min_pool_size): conn = self._create_connection()`
JInitFill ==
  /\ jpc[BOOT] = "init_fill"
  /\ jpc' = [jpc EXCEPT ![BOOT] = IF jfill < min_pool_size THEN "cc_connect"
                                                           ELSE "done"]
  /\ UNCHANGED <<jdbc_pool, created_connections, jdbc_lock, jconn, jfill>>
  /\ UNCHANGED <<poolVars, serverAux, workVars, logVars, counterVars,
                 latencyVars, lockVars>>

\* __init__: `if conn: self.pool.put(conn)`
JInitPut ==
  /\ jpc[BOOT] = "init_put"
  /\ jdbc_pool' = IF jconn[BOOT] = "none" THEN jdbc_pool
                  ELSE Append(jdbc_pool, jconn[BOOT])
  /\ jconn' = [jconn EXCEPT ![BOOT] = "none"]
  /\ jfill' = jfill + 1
  /\ jpc' = [jpc EXCEPT ![BOOT] = "init_fill"]
  /\ UNCHANGED <<created_connections, jdbc_lock>>
  /\ UNCHANGED <<poolVars, serverAux, workVars, logVars, counterVars,
                 latencyVars, lockVars>>

\* _create_connection: jaydebeapi.connect returns
JConnectOk(t) ==
  /\ jpc[t] = "cc_connect"
  /\ jconn' = [jconn EXCEPT ![t] = "ok"]
  /\ jpc' = [jpc EXCEPT ![t] = "cc_lock"]
  /\ UNCHANGED <<jdbc_pool, created_connections, jdbc_lock, jfill>>
  /\ UNCHANGED <<poolVars, serverAux, workVars, logVars, counterVars,
                 latencyVars, lockVars>>

\* _create_connection: jaydebeapi.connect raises; `return None`.  In
\* get_connection the `return` leaves the `with self.lock:` block.
JConnectFail(t) ==
  /\ jpc[t] = "cc_connect"
  /\ jconn' = [jconn EXCEPT ![t] = "none"]
  /\ jpc' = [jpc EXCEPT ![t] = IF t = BOOT THEN "init_put" ELSE "idle"]
  /\ jdbc_lock' = IF t = BOOT THEN jdbc_lock ELSE "free"
  /\ UNCHANGED <<jdbc_pool, created_connections, jfill>>
  /\ UNCHANGED <<poolVars, serverAux, workVars, logVars, counterVars,
                 latencyVars, lockVars>>

\* _create_connection: `with self.lock: self.created_connections += 1` and
\* `return conn`; the thread waits until the lock is free, takes it, counts
\* and lets it go.  In get_connection the `return` then leaves the outer
\* `with self.lock:` block.
JCountCreated(t) ==
  /\ jpc[t] = "cc_lock"
  /\ jdbc_lock = "free"
  /\ created_connections' = created_connections + 1
  /\ jpc' = [jpc EXCEPT ![t] = IF t = BOOT THEN "init_put" ELSE "using"]
  /\ UNCHANGED <<jdbc_pool, jdbc_lock, jconn, jfill>>
  /\ UNCHANGED <<poolVars, serverAux, workVars, logVars, counterVars,
                 latencyVars, lockVars>>

\* a worker calls get_connection, once the pool is built
JGetCall(t) ==
  /\ t \in Workers
  /\ jpc[BOOT] = "done"
  /\ jpc[t] = "idle"
  /\ jpc' = [jpc EXCEPT ![t] = "gc_get"]
  /\ UNCHANGED <<jdbc_pool, created_connections, jdbc_lock, jconn, jfill>>
  /\ UNCHANGED <<poolVars, serverAux, workVars, logVars, counterVars,
                 latencyVars, lockVars>>

\* `conn = self.pool.get(block=False)`, or queue.Empty
JGet(t) ==
  /\ jpc[t] = "gc_get"
  /\ IF jdbc_pool # <<>>
       THEN /\ jconn' = [jconn EXCEPT ![t] = Head(jdbc_pool)]
            /\ jdbc_pool' = Tail(jdbc_pool)
            /\ jpc' = [jpc EXCEPT ![t] = "gc_validate"]
       ELSE /\ jpc' = [jpc EXCEPT ![t] = "gc_lock"]
            /\ UNCHANGED <<jconn, jdbc_pool>>
  /\ UNCHANGED <<created_connections, jdbc_lock, jfill>>
  /\ UNCHANGED <<poolVars, serverAux, workVars, logVars, counterVars,
                 latencyVars, lockVars>>

\* `with self.lock: if self.created_connections < self.config.max_pool_size:
\* return self._create_connection()`: the call is made with the lock held;
\* otherwise the block ends and the lock is let go
JLock(t) ==
  /\ jpc[t] = "gc_lock"
  /\ jdbc_lock = "free"
  /\ IF created_connections < max_pool_size
       THEN /\ jdbc_lock' = t
            /\ jpc' = [jpc EXCEPT ![t] = "cc_connect"]
       ELSE /\ jdbc_lock' = jdbc_lock
            /\ jpc' = [jpc EXCEPT ![t] = "gc_wait"]
  /\ UNCHANGED <<jdbc_pool, created_connections, jconn, jfill>>
  /\ UNCHANGED <<poolVars, serverAux, workVars, logVars, counterVars,
                 latencyVars, lockVars>>

\* `conn = self.pool.get(timeout=5)` returns a connection
JWaitGet(t) ==
  /\ jpc[t] = "gc_wait"
  /\ jdbc_pool # <<>>
  /\ jconn' = [jconn EXCEPT ![t] = Head(jdbc_pool)]
  /\ jdbc_pool' = Tail(jdbc_pool)
  /\ jpc' = [jpc EXCEPT ![t] = "gc_validate"]
  /\ UNCHANGED <<created_connections, jdbc_lock, jfill>>
  /\ UNCHANGED <<poolVars, serverAux, workVars, logVars, counterVars,
                 latencyVars, lockVars>>

\* the five seconds pass: raise Exception("Connection pool exhausted")
JWaitTimeout(t) ==
  /\ jpc[t] = "gc_wait"
  /\ jdbc_pool = <<>>
  /\ jpc' = [jpc EXCEPT ![t] = "idle"]
  /\ UNCHANGED <<jdbc_pool, created_connections, jdbc_lock, jconn, jfill>>
  /\ UNCHANGED <<poolVars, serverAux, workVars, logVars, counterVars,
                 latencyVars, lockVars>>

\* `if conn.jconn.isClosed() or not conn.jconn.isValid(1):` close it; a
\* valid connection is returned to the caller
JValidate(t) ==
  /\ jpc[t] = "gc_validate"
  /\ IF jconn[t] = "ok"
       THEN /\ jpc' = [jpc EXCEPT ![t] = "using"]
            /\ jconn' = jconn
       ELSE /\ jpc' = [jpc EXCEPT ![t] = "gc_dec"]
            /\ jconn' = [jconn EXCEPT ![t] = "none"]
  /\ UNCHANGED <<jdbc_pool, created_connections, jdbc_lock, jfill>>
  /\ UNCHANGED <<poolVars, serverAux, workVars, logVars, counterVars,
                 latencyVars, lockVars>>

\* `with self.lock: self.created_connections -= 1`, then
\* `return self.get_connection()`
JDiscardCount(t) ==
  /\ jpc[t] = "gc_dec"
  /\ jdbc_lock = "free"
  /\ created_connections' = created_connections - 1
  /\ jpc' = [jpc EXCEPT ![t] = "gc_get"]
  /\ UNCHANGED <<jdbc_pool, jdbc_lock, jconn, jfill>>
  /\ UNCHANGED <<poolVars, serverAux, workVars, logVars, counterVars,
                 latencyVars, lockVars>>

\* a connection in the queue or in a worker's hands breaks, or is closed by
\* the server's side
JBreak ==
  /\ \/ \E i \in 1..Len(jdbc_pool) : \E st \in {"bad", "closed"} :
          /\ jdbc_pool[i] = "ok"
          /\ jdbc_pool' = [jdbc_pool EXCEPT ![i] = st]
          /\ jconn' = jconn
     \/ \E t \in Workers : \E st \in {"bad", "closed"} :
          /\ jpc[t] = "using"
          /\ jconn[t] = "ok"
          /\ jconn' = [jconn EXCEPT ![t] = st]
          /\ jdbc_pool' = jdbc_pool
  /\ UNCHANGED <<created_connections, jdbc_lock, jpc, jfill>>
  /\ UNCHANGED <<poolVars, serverAux, workVars, logVars, counterVars,
                 latencyVars, lockVars>>

\* return_connection(conn): an open connection goes back to the queue; for a
\* closed one `with self.lock: self.created_connections -= 1`
JReturn(t) ==
  /\ t \in Workers
  /\ jpc[t] = "using"
  /\ IF jconn[t] # "closed"
       THEN /\ jdbc_pool' = Append(jdbc_pool, jconn[t])
            /\ created_connections' = created_connections
       ELSE /\ jdbc_lock = "free"
            /\ created_connections' = created_connections - 1
            /\ jdbc_pool' = jdbc_pool
  /\ jconn' = [jconn EXCEPT ![t] = "none"]
  /\ jpc' = [jpc EXCEPT ![t] = "idle"]
  /\ UNCHANGED <<jdbc_lock, jfill>>
  /\ UNCHANGED <<poolVars, serverAux, workVars, logVars, counterVars,
                 latencyVars, lockVars>>

create_connection(t) ==
  \/ JConnectOk(t)
  \/ JConnectFail(t)
  \/ JCountCreated(t)

jdbc_get_connection(t) ==
  \/ JGetCall(t)
  \/ JGet(t)
  \/ JLock(t)
  \/ JWaitGet(t)
  \/ JWaitTimeout(t)
  \/ JValidate(t)
  \/ JDiscardCount(t)

NextJdbc ==
  \/ JInitFill
  \/ JInitPut
  \/ JBreak
  \/ \E t \in JdbcThreads : create_connection(t)
  \/ \E t \in Workers : jdbc_get_connection(t)
  \/ \E t \in Workers : JReturn(t)

SpecJdbc == InitErrorLog /\ [][NextJdbc]_vars

\* the thread waits for the pool's lock
WaitsForJdbcLock(t) == jpc[t] \in {"gc_lock", "cc_lock", "gc_dec"}

\* C32: get_connection of JdbcConnectionPool never blocks for ever: no call
\* waits for the pool's lock while the calling thread itself holds it (a wait
\* that never ends and leaves the lock held).
C32_GetConnectionNeverBlocks ==
  \A t \in Workers : ~(WaitsForJdbcLock(t) /\ jdbc_lock = t)

\* ---- the locks of the engine --------------------------------------------------
\* What a call does to the locks, in the order of its `with` blocks: a step
\* is <<"acq", l>> or <<"rel", l>>.
Section(l) == << <<"acq", l>>, <<"rel", l>> >>

\* JDBCConnectionPool.acquire: _create_connection_internal's two sections
\* under self.lock, then active_connections_lock, then self.lock
AcquireLocks ==
  Section("pool") \o Section("pool") \o Section("active") \o Section("pool")

\* release: active_connections_lock, self.lock (active_count), and
\* _close_pooled_connection's self.lock for a handle that is not kept
ReleaseLocks == Section("active") \o Section("pool") \o Section("pool")

\* discard: active_connections_lock, self.lock twice
DiscardLocks == Section("active") \o Section("pool") \o Section("pool")

\* _check_idle_connections: self.lock for can_drop, for a closed handle and
\* for the top-up test; _detect_connection_leaks: active_connections_lock
SweepLocks ==
  Section("pool") \o Section("pool") \o Section("pool") \o Section("active")

\* get_pool_stats, when lock.acquire(timeout=0.1) succeeds
GetPoolStatsLocks == Section("pool")

\* a record_transaction that counts while it holds recent_lock
RecordTransactionNested ==
  << <<"acq", "recent">>, <<"acq", "perf">>, <<"rel", "perf">>,
     <<"rel", "recent">> >> \o Section("latency")

\* PerformanceCounter.record_transaction: lock, recent_lock, latency_lock, one
\* after the other
RecordTransactionLocks ==
  Section("perf") \o Section("recent") \o Section("latency")

\* increment_insert and the other counters, get_interval_stats: lock
IncrementLocks == Section("perf")

\* get_stats: get_sub_second_tps is called, and takes recent_lock, inside
\* `with self.lock:`
GetStatsLocks ==
  << <<"acq", "perf">>, <<"acq", "recent">>, <<"rel", "recent">>,
     <<"rel", "perf">> >>

\* get_sub_second_tps: recent_lock
GetSubSecondTpsLocks == Section("recent")

\* get_latency_stats: latency_lock
GetLatencyStatsLocks == Section("latency")

\* record_time_series: get_stats(), get_latency_stats(), then time_series_lock
RecordTimeSeriesLocks ==
  GetStatsLocks \o GetLatencyStatsLocks \o Section("series")

\* the calls each thread makes: a worker (run, log_error's pool statistics),
\* the health check, the monitor (MonitorThread.run)
Menu(t) ==
  IF t \in Workers
    THEN {AcquireLocks, ReleaseLocks, DiscardLocks, GetPoolStatsLocks,
          RecordTransactionLocks, IncrementLocks}
  ELSE IF t = HC THEN {SweepLocks}
  ELSE {IncrementLocks, GetStatsLocks, GetLatencyStatsLocks,
        GetPoolStatsLocks, GetSubSecondTpsLocks, RecordTimeSeriesLocks}

LockThreads == Threads \cup {MON}

\* a thread that is in no call makes one
CallLocked(t) ==
  /\ script[t] = <<>>
  /\ \E s \in Menu(t) : script' = [script EXCEPT ![t] = s]
  /\ UNCHANGED lock_owner
  /\ UNCHANGED <<poolVars, serverAux, workVars, logVars, counterVars,
                 latencyVars, jdbcVars>>

\* `with l:` is entered: the lock is free and becomes the thread's
TakeLock(t) ==
  /\ script[t] # <<>>
  /\ Head(script[t])[1] = "acq"
  /\ lock_owner[Head(script[t])[2]] = "free"
  /\ lock_owner' = [lock_owner EXCEPT ![Head(script[t])[2]] = t]
  /\ script' = [script EXCEPT ![t] = Tail(@)]
  /\ UNCHANGED <<poolVars, serverAux, workVars, logVars, counterVars,
                 latencyVars, jdbcVars>>

\* the `with` block ends
LeaveLock(t) ==
  /\ script[t] # <<>>
  /\ Head(script[t])[1] = "rel"
  /\ lock_owner' = [lock_owner EXCEPT ![Head(script[t])[2]] = "free"]
  /\ script' = [script EXCEPT ![t] = Tail(@)]
  /\ UNCHANGED <<poolVars, serverAux, workVars, logVars, counterVars,
                 latencyVars, jdbcVars>>

NextLocks ==
  \E t \in LockThreads :
    \/ CallLocked(t)
    \/ TakeLock(t)
    \/ LeaveLock(t)

SpecLocks == InitErrorLog /\ [][NextLocks]_vars

\* the locks a thread holds, and the lock it is about to take
HeldLocks(t) == {l \in Locks : lock_owner[l] = t}
Wanted(t) ==
  IF script[t] # <<>> /\ Head(script[t])[1] = "acq"
    THEN {Head(script[t])[2]} ELSE {}

\* the threads that t waits for: the holders of the lock it wants
WaitsFor(t) == {u \in LockThreads : \E l \in Wanted(t) : lock_owner[l] = u}

\* the threads reached from t along WaitsFor in one step or more
WaitsOn(S) == UNION {WaitsFor(u) : u \in S}
WaitChain(t) ==
  LET s1 == WaitsFor(t)
      s2 == s1 \cup WaitsOn(s1)
      s3 == s2 \cup WaitsOn(s2)
  IN  s3 \cup WaitsOn(s3)

\* C31: the engine cannot deadlock on its locks: no thread is in a circle of
\* threads that each wait for a lock the next one holds, a thread that holds
\* a lock takes another one only in the one order lock then recent_lock of
\* the counter, and no thread holds a lock of the pool and a lock of the
\* metrics at the same time.
C31_NoLockDeadlock ==
  \A t \in LockThreads :
    /\ t \notin WaitChain(t)
    /\ \A a \in HeldLocks(t) : \A b \in Wanted(t) : <<a, b>> = <<"perf", "recent">>
    /\ HeldLocks(t) \cap PoolLocks = {} \/ HeldLocks(t) \cap MetricsLocks = {}

\* the monitor holds the counter's lock and waits for recent_lock, which a
\* worker holds, while the other worker is inside the pool's lock
C31_Witness ==
  /\ HeldLocks(MON) = {"perf"}
  /\ Wanted(MON) = {"recent"}
  /\ lock_owner["recent"] = "w1"
  /\ lock_owner["pool"] = "w2"
  /\ lock_owner["active"] = HC
====
